---- MODULE Spec2Model ----
(***************************************************************************)
(* Trade ingestion and reconciliation pipeline of the trading journal:     *)
(* server/csvImport.ts (value normalizer, row parser, dedup key,           *)
(* importCsvTrades, recalculateDailyMetrics), the trades / daily_metrics   *)
(* tables of shared/schema.ts, manual trade creation (server/routes.ts,    *)
(* server/storage.ts), the TradingView webhook (server/storage.ts), the    *)
(* inbound email handler and the ingestion tokens (server/emailIngest.ts). *)
(*                                                                         *)
(* Strings are sequences of one-character strings, so that trim, replace,  *)
(* includes, parseFloat and template concatenation are computed character  *)
(* by character.  JavaScript values are tagged records (JNull, JUndef,     *)
(* JNum, JStr, JDate).  Numbers are integers: the cells enumerated by the  *)
(* model contain no ".", "+", "e", "E" and no "Infinity".  Date cells are  *)
(* ISO dates "1970-01-DD" (parsed by JavaScript as UTC midnight, so that   *)
(* getTime() fits the integers of the checker) or strings that new Date    *)
(* cannot parse.                                                           *)
(***************************************************************************)
EXTENDS Integers, Sequences, FiniteSets, TLC

(***************************************************************************)
(* JavaScript values                                                       *)
(***************************************************************************)
JNull == [t |-> "null"]
JUndef == [t |-> "undefined"]
JNum(n) == [t |-> "num", v |-> n]
JStr(s) == [t |-> "str", v |-> s]
JDate(ms) == [t |-> "date", v |-> ms]

\* !x of JavaScript
Falsy(x) ==
  \/ x.t \in {"null", "undefined"}
  \/ (x.t = "num" /\ x.v = 0)
  \/ (x.t = "str" /\ x.v = <<>>)

\* x == null of JavaScript, the test behind ?. and ??
Nullish(x) == x.t \in {"null", "undefined"}

Digits == <<"0", "1", "2", "3", "4", "5", "6", "7", "8", "9">>
UpperChars == <<"A", "B", "C", "D", "E", "F", "G", "H", "I", "J", "K", "L", "M",
                "N", "O", "P", "Q", "R", "S", "T", "U", "V", "W", "X", "Y", "Z">>
LowerChars == <<"a", "b", "c", "d", "e", "f", "g", "h", "i", "j", "k", "l", "m",
                "n", "o", "p", "q", "r", "s", "t", "u", "v", "w", "x", "y", "z">>

IsDigit(c) == \E i \in 1..10 : Digits[i] = c
DigitVal(c) == (CHOOSE i \in 1..10 : Digits[i] = c) - 1

\* String.prototype.toLowerCase / toUpperCase
LowerChar(c) ==
  IF \E i \in 1..26 : UpperChars[i] = c
    THEN LowerChars[CHOOSE i \in 1..26 : UpperChars[i] = c] ELSE c
UpperChar(c) ==
  IF \E i \in 1..26 : LowerChars[i] = c
    THEN UpperChars[CHOOSE i \in 1..26 : LowerChars[i] = c] ELSE c
toLowerCase(s) == [i \in 1..Len(s) |-> LowerChar(s[i])]
toUpperCase(s) == [i \in 1..Len(s) |-> UpperChar(s[i])]

\* String.prototype.trim
RECURSIVE TrimLeft(_)
TrimLeft(s) == IF s # <<>> /\ Head(s) = " " THEN TrimLeft(Tail(s)) ELSE s
RECURSIVE TrimRight(_)
TrimRight(s) ==
  IF s # <<>> /\ s[Len(s)] = " " THEN TrimRight(SubSeq(s, 1, Len(s) - 1)) ELSE s
trim(s) == TrimRight(TrimLeft(s))

\* String.prototype.includes
includes(s, sub) ==
  \E i \in 1..(Len(s) - Len(sub) + 1) : SubSeq(s, i, i + Len(sub) - 1) = sub

\* value.replace(/[\$,]/g, '')
stripCurrency(s) == SelectSeq(s, LAMBDA c : c \notin {"$", ","})

\* the decimal digits a string starts with, and their value
RECURSIVE LeadingDigits(_)
LeadingDigits(s) ==
  IF s # <<>> /\ IsDigit(Head(s)) THEN <<Head(s)>> \o LeadingDigits(Tail(s)) ELSE <<>>
RECURSIVE DigitsValue(_)
DigitsValue(d) ==
  IF d = <<>> THEN 0 ELSE 10 * DigitsValue(SubSeq(d, 1, Len(d) - 1)) + DigitVal(d[Len(d)])

\* parseFloat: leading white space, an optional minus sign, the longest
\* prefix of digits; JNull stands for NaN
parseFloat(s) ==
  LET u == TrimLeft(s)
      neg == u # <<>> /\ Head(u) = "-"
      body == IF neg THEN Tail(u) ELSE u
      d == LeadingDigits(body)
  IN  IF d = <<>> THEN JNull
      ELSE JNum(IF neg THEN 0 - DigitsValue(d) ELSE DigitsValue(d))

\* Number.prototype.toString for an integer
RECURSIVE NatToStr(_)
NatToStr(n) ==
  IF n < 10 THEN <<Digits[n + 1]>> ELSE NatToStr(n \div 10) \o <<Digits[(n % 10) + 1]>>
NumToStr(n) == IF n < 0 THEN <<"-">> \o NatToStr(0 - n) ELSE NatToStr(n)

MsPerDay == 86400000

\* new Date(value) for "1970-01-DD"; JNull stands for an Invalid Date
DatePrefix == <<"1", "9", "7", "0", "-", "0", "1", "-">>
newDate(s) ==
  IF /\ Len(s) = 10
     /\ SubSeq(s, 1, 8) = DatePrefix
     /\ IsDigit(s[9]) /\ IsDigit(s[10])
     /\ DigitsValue(SubSeq(s, 9, 10)) \in 1..31
    THEN JDate((DigitsValue(SubSeq(s, 9, 10)) - 1) * MsPerDay)
    ELSE JNull

\* date.toISOString().split('T')[0]
isoDate(ms) ==
  LET day == (ms \div MsPerDay) + 1
  IN  DatePrefix \o (IF day < 10 THEN <<"0">> ELSE <<>>) \o NatToStr(day)

\* String(x) inside a template literal
str(x) ==
  CASE x.t = "null" -> <<"n", "u", "l", "l">>
    [] x.t = "undefined" -> <<"u", "n", "d", "e", "f", "i", "n", "e", "d">>
    [] x.t = "num" -> NumToStr(x.v)
    [] x.t = "str" -> x.v
    [] x.t = "date" -> NumToStr(x.v)

(***************************************************************************)
(* Value normalizer and row parser (server/csvImport.ts)                   *)
(***************************************************************************)
LongStr == <<"l", "o", "n", "g">>
ShortStr == <<"s", "h", "o", "r", "t">>
BuyStr == <<"b", "u", "y">>
SellStr == <<"s", "e", "l", "l">>

normalizeValue(value, type) ==
  IF Falsy(value) \/ trim(value.v) = <<>> THEN JNull
  ELSE LET v == trim(value.v) IN
    CASE type = "number" ->
           LET num == parseFloat(stripCurrency(v))
           IN  IF num.t = "null" THEN JNum(0) ELSE num
      [] type = "date" -> newDate(v)
      [] type = "side" ->
           LET lower == toLowerCase(v) IN
             IF includes(lower, BuyStr) \/ includes(lower, LongStr) THEN JStr(LongStr)
             ELSE IF includes(lower, SellStr) \/ includes(lower, ShortStr) THEN JStr(ShortStr)
             ELSE JStr(LongStr)
      [] type = "symbol" -> JStr(toUpperCase(v))

\* row[column]: undefined when the record has no such column
Cell(row, column) == IF column \in DOMAIN row THEN JStr(row[column]) ELSE JUndef

\* mapping.field of an optional mapping entry: undefined when not configured
MapCol(mapping, field) == IF field \in DOMAIN mapping THEN mapping[field] ELSE ""

\* JNull stands for the null that rejects the row
parseCsvRow(row, mapping) ==
  LET symbol == normalizeValue(Cell(row, mapping.symbol), "symbol")
      side == normalizeValue(Cell(row, mapping.side), "side")
      qty == normalizeValue(Cell(row, mapping.qty), "number")
      entryPrice == normalizeValue(Cell(row, mapping.entryPrice), "number")
      entryTime == normalizeValue(Cell(row, mapping.entryTime), "date")
  IN  IF Falsy(symbol) \/ Falsy(side) \/ Falsy(qty) \/ Falsy(entryPrice) \/ Falsy(entryTime)
        THEN JNull
        ELSE [t |-> "trade",
              symbol |-> symbol,
              side |-> side,
              qty |-> qty,
              entryPrice |-> entryPrice,
              exitPrice |-> IF MapCol(mapping, "exitPrice") # ""
                              THEN normalizeValue(Cell(row, mapping.exitPrice), "number")
                              ELSE JNull,
              entryTime |-> entryTime,
              exitTime |-> IF MapCol(mapping, "exitTime") # ""
                             THEN normalizeValue(Cell(row, mapping.exitTime), "date")
                             ELSE JNull,
              fees |-> IF MapCol(mapping, "fees") # ""
                         THEN normalizeValue(Cell(row, mapping.fees), "number")
                         ELSE JNum(0),
              pnl |-> IF MapCol(mapping, "pnl") # ""
                        THEN normalizeValue(Cell(row, mapping.pnl), "number")
                        ELSE JNull,
              brokerExecutionId |-> IF MapCol(mapping, "brokerExecutionId") # ""
                                      THEN Cell(row, mapping.brokerExecutionId)
                                      ELSE JNull]

\* trade.exitTime?.getTime()
getTimeOpt(d) == IF Nullish(d) THEN JUndef ELSE JNum(d.v)

Dash == <<"-">>

\* a dedup key that leaves the exit price out
generateRowHashNoExit(trade, accountId) ==
  accountId \o Dash \o str(trade.symbol) \o Dash \o str(trade.side) \o Dash
    \o str(trade.qty) \o Dash \o str(getTimeOpt(trade.entryTime)) \o Dash
    \o str(getTimeOpt(trade.exitTime)) \o Dash \o str(trade.entryPrice)

\* the string generateRowHash digests; SHA-256 is taken to be collision
\* free, so the digest is represented by its input
generateRowHash(trade, accountId) ==
  accountId \o Dash \o str(trade.symbol) \o Dash \o str(trade.side) \o Dash
    \o str(trade.qty) \o Dash \o str(getTimeOpt(trade.entryTime)) \o Dash
    \o str(getTimeOpt(trade.exitTime)) \o Dash \o str(trade.entryPrice) \o Dash
    \o str(trade.exitPrice)

(***************************************************************************)
(* State                                                                   *)
(***************************************************************************)
VARIABLES
  trades,          \* rows of table trades
  dailyMetrics,    \* rows of table daily_metrics
  journalEntries,  \* rows of table journal_entries
  tradingAccounts, \* rows of table trading_accounts
  userIngestTokens, \* rows of table user_ingest_tokens
  dbUp,            \* FALSE while every storage operation fails
  proc,            \* one frame per importCsvTrades call
  hook,            \* one frame per POST /api/ingest/tradingview request
  tvSecret,        \* process.env.TV_SECRET
  mail,            \* one frame per POST /api/ingest/email request
  tok,             \* one frame per ingestion token request
  pRow, pMapping, pOut,  \* input and output of a stand-alone parseCsvRow call
  hIn, hOut,       \* input and output of stand-alone generateRowHash calls
  dIn, dOut,       \* input and output of a stand-alone detectCsvFormat call
  listResp,        \* the last GET /api/trades response
  api,             \* the exported TradovateAPI instance (tradovateAPI)
  sync,            \* one frame per request to a /api/tradovate route or call of
                   \* refreshAccessToken
  brokerCalls      \* the requests sent to the broker, in order

dbVars == <<trades, dailyMetrics, journalEntries, tradingAccounts, userIngestTokens>>
parseVars == <<pRow, pMapping, pOut>>
hashVars == <<hIn, hOut>>
detectVars == <<dIn, dOut>>
syncVars == <<api, sync, brokerCalls>>
hookVars == <<hook, tvSecret>>
vars == <<trades, dailyMetrics, journalEntries, tradingAccounts, userIngestTokens,
          dbUp, proc, hook, tvSecret, mail, tok,
          pRow, pMapping, pOut, hIn, hOut, dIn, dOut, listResp,
          api, sync, brokerCalls>>

Procs == {1, 2}

(***************************************************************************)
(* Bounds                                                                  *)
(***************************************************************************)
MaxBatchLen == 2   \* rows per batch of a sequential import
MaxConcLen == 1    \* rows per batch of a concurrent import
MaxManual == 1     \* POST /api/trades requests that create a row
MaxHooks == 2      \* webhook requests
MaxMails == 1      \* inbound emails
MaxFiles == 2      \* attachments of an email
MaxMetricLen == 4  \* rows per batch of an import of the metrics fills
MaxJournal == 1    \* POST /api/journal-entries requests that create a row
MaxAccounts == 1   \* POST /api/trading-accounts requests that create a row

RECURSIVE SeqsUpTo(_, _)
SeqsUpTo(S, n) ==
  IF n = 0 THEN {<<>>}
  ELSE LET shorter == SeqsUpTo(S, n - 1)
       IN  shorter \cup {Append(q, x) : q \in {r \in shorter : Len(r) = n - 1}, x \in S}

(***************************************************************************)
(* Storage: tables trades and daily_metrics (shared/schema.ts)             *)
(***************************************************************************)
\* the FOREIGN KEY of trades.trading_account_id
ForeignKeyOk(row) == \E a \in tradingAccounts : a.id = row.tradingAccountId

\* trades_row_hash_uidx declared with index() instead of uniqueIndex()
uniqueRowHashIdxOff(rows) == TRUE

\* the UNIQUE index trades_row_hash_uidx on (user_id, trading_account_id,
\* row_hash); SQL NULLs never collide
uniqueRowHashIdx(rows) ==
  \A r1, r2 \in rows :
    (/\ r1.id # r2.id
     /\ r1.rowHash.t # "null"
     /\ r1.userId = r2.userId
     /\ r1.tradingAccountId = r2.tradingAccountId)
      => r1.rowHash # r2.rowHash

\* gen_random_uuid(), nanoid(): an id no row has; rows are never deleted
NewId(rows) == Cardinality(rows) + 1

\* db.insert(trades).values(data): undefined takes the column default
InsertedTrade(data) ==
  [id |-> NewId(trades),
   userId |-> data.userId,
   tradingAccountId |-> data.tradingAccountId,
   symbol |-> data.symbol,
   side |-> data.side,
   qty |-> data.qty,
   entryPrice |-> data.entryPrice,
   exitPrice |-> IF data.exitPrice.t = "undefined" THEN JNull ELSE data.exitPrice,
   entryTime |-> data.entryTime,
   exitTime |-> IF data.exitTime.t = "undefined" THEN JNull ELSE data.exitTime,
   fees |-> IF data.fees.t = "undefined" THEN JStr(<<"0">>) ELSE data.fees,
   pnl |-> IF data.pnl.t = "undefined" THEN JNull ELSE data.pnl,
   brokerExecutionId |-> IF data.brokerExecutionId.t = "undefined"
                           THEN JNull ELSE data.brokerExecutionId,
   rowHash |-> IF data.rowHash.t = "undefined" THEN JNull ELSE data.rowHash,
   importSource |-> data.importSource,
   source |-> IF "source" \in DOMAIN data THEN data.source ELSE "manual",
   externalId |-> IF "externalId" \in DOMAIN data THEN data.externalId ELSE JNull]

\* db.update(trades).set(data): undefined leaves the column as it is
UpdatedTrade(old, data) ==
  [old EXCEPT
     !.userId = data.userId,
     !.tradingAccountId = data.tradingAccountId,
     !.symbol = data.symbol,
     !.side = data.side,
     !.qty = data.qty,
     !.entryPrice = data.entryPrice,
     !.exitPrice = IF data.exitPrice.t = "undefined" THEN @ ELSE data.exitPrice,
     !.entryTime = data.entryTime,
     !.exitTime = IF data.exitTime.t = "undefined" THEN @ ELSE data.exitTime,
     !.fees = IF data.fees.t = "undefined" THEN @ ELSE data.fees,
     !.pnl = IF data.pnl.t = "undefined" THEN @ ELSE data.pnl,
     !.brokerExecutionId = IF data.brokerExecutionId.t = "undefined"
                             THEN @ ELSE data.brokerExecutionId,
     !.rowHash = data.rowHash,
     !.importSource = data.importSource]

\* the table after db.update(trades).set(data).where(eq(trades.id, id))
TradesAfterUpdate(id, data) ==
  {IF r.id = id THEN UpdatedTrade(r, data) ELSE r : r \in trades}

\* the table after db.insert(trades).values(data)
TradesAfterInsert(data) == trades \cup {InsertedTrade(data)}

\* x?.toString()
toStringOpt(x) == IF Nullish(x) THEN JUndef ELSE JStr(str(x))

\* the tradeData object of importCsvTrades; parsedTrade.fees.toString()
\* raises a TypeError when fees is null
TradeDataThrows(parsedTrade) == Nullish(parsedTrade.fees)

TradeData(userId, accountId, parsedTrade, source) ==
  [userId |-> userId,
   tradingAccountId |-> accountId,
   symbol |-> parsedTrade.symbol.v,
   side |-> parsedTrade.side.v,
   qty |-> JStr(str(parsedTrade.qty)),
   entryPrice |-> JStr(str(parsedTrade.entryPrice)),
   exitPrice |-> LET s == toStringOpt(parsedTrade.exitPrice)
                 IN  IF Falsy(s) THEN JUndef ELSE s,
   entryTime |-> parsedTrade.entryTime,
   exitTime |-> parsedTrade.exitTime,
   fees |-> JStr(str(parsedTrade.fees)),
   pnl |-> toStringOpt(parsedTrade.pnl),
   brokerExecutionId |-> parsedTrade.brokerExecutionId,
   rowHash |-> JStr(generateRowHash(parsedTrade, accountId)),
   importSource |-> source]

(***************************************************************************)
(* importCsvTrades and recalculateDailyMetrics (server/csvImport.ts)       *)
(***************************************************************************)
\* faulted (a storage operation of the call failed) and outcome (what became
\* of each row, in input order) are history fields the code does not keep
IdleFrame ==
  [pc |-> "idle", userId |-> "", accountId |-> <<>>, rows |-> <<>>, mapping |-> <<>>,
   source |-> "", i |-> 1, inserted |-> 0, updated |-> 0, errors |-> <<>>,
   daysTouched |-> <<>>, existingTrade |-> {}, d |-> 1, metricsData |-> <<>>,
   existingMetrics |-> {}, faulted |-> FALSE, outcome |-> <<>>]

\* entry of importCsvTrades: an empty result and an empty daysTouchedSet;
\* the frames are taken in order, frame 1 by the call that starts first
StartImport(p, userId, accountId, rows, mapping, source) ==
  /\ proc[p].pc = "idle"
  /\ \A q \in Procs : q < p => proc[q].pc # "idle"
  /\ proc' = [proc EXCEPT ![p] =
       [IdleFrame EXCEPT
          !.pc = "loop", !.userId = userId, !.accountId = accountId, !.rows = rows,
          !.mapping = mapping, !.source = source]]
  /\ UNCHANGED <<dbVars, dbUp, hookVars, mail, tok, parseVars, hashVars, detectVars, listResp, syncVars>>

\* the row does not parse: push "Failed to parse row" and continue
AfterParseFailure(f) ==
  [f EXCEPT !.errors = Append(@, "Failed to parse row"), !.i = @ + 1,
            !.outcome = Append(@, "parse")]

\* a catch that logs the failure without an entry in errors
AfterRowErrorSilent(f) ==
  [f EXCEPT !.i = @ + 1, !.pc = "loop", !.existingTrade = {},
            !.outcome = Append(@, "error")]

\* the catch of the loop body: push "Error processing row"; the row is
\* neither counted nor added to daysTouchedSet
AfterRowError(f) ==
  [f EXCEPT !.errors = Append(@, "Error processing row"), !.i = @ + 1,
            !.pc = "loop", !.existingTrade = {}, !.outcome = Append(@, "error")]

\* daysTouchedSet.add(tradeDate): a Set keeps insertion order
AddDay(days, date) ==
  IF \E k \in 1..Len(days) : days[k] = date THEN days ELSE Append(days, date)

ParseFailed(p) ==
  /\ proc[p].pc = "loop"
  /\ proc[p].i <= Len(proc[p].rows)
  /\ parseCsvRow(proc[p].rows[proc[p].i], proc[p].mapping) = JNull
  /\ proc' = [proc EXCEPT ![p] = AfterParseFailure(@)]
  /\ UNCHANGED <<dbVars, dbUp, hookVars, mail, tok, parseVars, hashVars, detectVars, listResp, syncVars>>

\* a lookup that takes any row that carries a fingerprint
FindByRowHashLoose(rowHash) == {r \in trades : r.rowHash.t = "str"}

\* db.select().from(trades).where(eq(trades.rowHash, rowHash))
FindByRowHash(rowHash) == {r \in trades : r.rowHash = rowHash}

\* parse, fingerprint, then the awaited lookup; limit(1) without an order
\* returns any one of the matching rows
LookupExisting(p) ==
  LET f == proc[p]
      parsedTrade == parseCsvRow(f.rows[f.i], f.mapping)
      found == FindByRowHash(JStr(generateRowHash(parsedTrade, f.accountId)))
  IN  /\ f.pc = "loop"
      /\ f.i <= Len(f.rows)
      /\ parsedTrade # JNull
      /\ IF ~dbUp
           THEN proc' = [proc EXCEPT ![p] = [AfterRowError(f) EXCEPT !.faulted = TRUE]]
           ELSE \/ /\ found = {}
                   /\ proc' = [proc EXCEPT ![p].pc = "write", ![p].existingTrade = {}]
                \/ \E r \in found :
                     proc' = [proc EXCEPT ![p].pc = "write", ![p].existingTrade = {r.id}]
      /\ UNCHANGED <<dbVars, dbUp, hookVars, mail, tok, parseVars, hashVars, detectVars, listResp, syncVars>>

\* the date is recorded for inserted rows only
AfterRowWrittenInsertOnly(f, parsedTrade) ==
  [f EXCEPT !.inserted = IF f.existingTrade = {} THEN @ + 1 ELSE @,
            !.updated = IF f.existingTrade = {} THEN @ ELSE @ + 1,
            !.daysTouched = IF f.existingTrade = {}
                              THEN AddDay(@, isoDate(parsedTrade.entryTime.v)) ELSE @,
            !.i = @ + 1, !.pc = "loop", !.existingTrade = {},
            !.outcome = Append(@, IF f.existingTrade = {} THEN "inserted" ELSE "updated")]

\* result.updated++ or result.inserted++, then daysTouchedSet.add
AfterRowWritten(f, parsedTrade) ==
  [f EXCEPT !.inserted = IF f.existingTrade = {} THEN @ + 1 ELSE @,
            !.updated = IF f.existingTrade = {} THEN @ ELSE @ + 1,
            !.daysTouched = AddDay(@, isoDate(parsedTrade.entryTime.v)),
            !.i = @ + 1, !.pc = "loop", !.existingTrade = {},
            !.outcome = Append(@, IF f.existingTrade = {} THEN "inserted" ELSE "updated")]

\* tradeData, then the awaited update or insert
WriteTrade(p) ==
  LET f == proc[p]
      parsedTrade == parseCsvRow(f.rows[f.i], f.mapping)
      data == TradeData(f.userId, f.accountId, parsedTrade, f.source)
      after == IF f.existingTrade = {}
                 THEN TradesAfterInsert(data)
                 ELSE TradesAfterUpdate(CHOOSE id \in f.existingTrade : TRUE, data)
  IN  /\ f.pc = "write"
      /\ IF TradeDataThrows(parsedTrade)
           THEN /\ proc' = [proc EXCEPT ![p] = AfterRowError(f)]
                /\ UNCHANGED trades
           ELSE IF ~dbUp
             THEN /\ proc' = [proc EXCEPT ![p] = [AfterRowError(f) EXCEPT !.faulted = TRUE]]
                  /\ UNCHANGED trades
           ELSE IF ~(uniqueRowHashIdx(after) /\ \A r \in after : ForeignKeyOk(r))
             THEN /\ proc' = [proc EXCEPT ![p] = AfterRowError(f)]
                  /\ UNCHANGED trades
           ELSE /\ trades' = after
                /\ proc' = [proc EXCEPT ![p] = AfterRowWritten(f, parsedTrade)]
      /\ UNCHANGED <<dailyMetrics, journalEntries, tradingAccounts, userIngestTokens,
                     dbUp, hookVars, mail, tok, parseVars, hashVars, detectVars, listResp, syncVars>>

\* end of the loop: result.daysTouched = Array.from(daysTouchedSet) and the
\* call of recalculateDailyMetrics
LoopDone(p) ==
  /\ proc[p].pc = "loop"
  /\ proc[p].i > Len(proc[p].rows)
  /\ proc' = [proc EXCEPT ![p].pc = "metrics", ![p].d = 1]
  /\ UNCHANGED <<dbVars, dbUp, hookVars, mail, tok, parseVars, hashVars, detectVars, listResp, syncVars>>

\* the rows recalculateDailyMetrics reads for a date: the where clause
\* names the user and the account only
DayTrades(userId, accountId, date) ==
  {r \in trades : r.userId = userId /\ r.tradingAccountId = accountId}

\* parseFloat(trade.pnl || '0'), parseFloat(trade.fees || '0')
NumOr0(x) == IF Falsy(x) THEN 0 ELSE parseFloat(x.v).v

RECURSIVE SumPnl(_)
SumPnl(rows) ==
  IF rows = {} THEN 0
  ELSE LET r == CHOOSE x \in rows : TRUE IN NumOr0(r.pnl) + SumPnl(rows \ {r})
RECURSIVE SumNet(_)
SumNet(rows) ==
  IF rows = {} THEN 0
  ELSE LET r == CHOOSE x \in rows : TRUE
       IN  (NumOr0(r.pnl) - NumOr0(r.fees)) + SumNet(rows \ {r})

\* a metricsData object that counts a zero P&L as a win
MetricsDataZeroWins(userId, accountId, date, dayTrades) ==
  [userId |-> userId,
   tradingAccountId |-> accountId,
   tradeDate |-> date,
   grossPnl |-> NumToStr(SumPnl(dayTrades)),
   netPnl |-> NumToStr(SumNet(dayTrades)),
   winCount |-> Cardinality({r \in dayTrades : NumOr0(r.pnl) >= 0}),
   lossCount |-> Cardinality({r \in dayTrades : NumOr0(r.pnl) < 0}),
   tradeCount |-> Cardinality(dayTrades)]

\* the metricsData object computed from dayTrades
MetricsData(userId, accountId, date, dayTrades) ==
  [userId |-> userId,
   tradingAccountId |-> accountId,
   tradeDate |-> date,
   grossPnl |-> NumToStr(SumPnl(dayTrades)),
   netPnl |-> NumToStr(SumNet(dayTrades)),
   winCount |-> Cardinality({r \in dayTrades : NumOr0(r.pnl) > 0}),
   lossCount |-> Cardinality({r \in dayTrades : NumOr0(r.pnl) < 0}),
   tradeCount |-> Cardinality(dayTrades)]

\* recalculateDailyMetrics, first await of an iteration: read the trades;
\* a failure is caught and logged, an empty result skips the date
ReadDayTrades(p) ==
  LET f == proc[p]
      date == f.daysTouched[f.d]
      dayTrades == DayTrades(f.userId, f.accountId, date)
  IN  /\ f.pc = "metrics"
      /\ f.d <= Len(f.daysTouched)
      /\ IF ~dbUp
           THEN proc' = [proc EXCEPT ![p].d = @ + 1, ![p].faulted = TRUE]
           ELSE IF dayTrades = {}
             THEN proc' = [proc EXCEPT ![p].d = @ + 1]
             ELSE proc' = [proc EXCEPT ![p].pc = "m_existing",
                    ![p].metricsData = MetricsData(f.userId, f.accountId, date, dayTrades)]
      /\ UNCHANGED <<dbVars, dbUp, hookVars, mail, tok, parseVars, hashVars, detectVars, listResp, syncVars>>

\* select from daily_metrics where user, account and date match
FindMetrics(userId, accountId, date) ==
  {m \in dailyMetrics :
     m.userId = userId /\ m.tradingAccountId = accountId /\ m.tradeDate = date}

\* second await: the existing metrics row, limit(1)
ReadExistingMetrics(p) ==
  LET f == proc[p]
      found == FindMetrics(f.userId, f.accountId, f.daysTouched[f.d])
  IN  /\ f.pc = "m_existing"
      /\ IF ~dbUp
           THEN proc' = [proc EXCEPT ![p].pc = "metrics", ![p].d = @ + 1,
                                     ![p].faulted = TRUE, ![p].metricsData = <<>>]
           ELSE \/ /\ found = {}
                   /\ proc' = [proc EXCEPT ![p].pc = "m_write", ![p].existingMetrics = {}]
                \/ \E m \in found :
                     proc' = [proc EXCEPT ![p].pc = "m_write", ![p].existingMetrics = {m.id}]
      /\ UNCHANGED <<dbVars, dbUp, hookVars, mail, tok, parseVars, hashVars, detectVars, listResp, syncVars>>

\* the index unique_user_account_date of daily_metrics is declared with
\* index(), not uniqueIndex(): it rejects nothing
uniqueUserAccountDate(rows) == TRUE

\* an update that sets every column but gross_pnl
WriteMetricsTorn(p) ==
  LET f == proc[p]
      after == IF f.existingMetrics = {}
                 THEN dailyMetrics \cup
                        {[id |-> NewId(dailyMetrics)] @@ f.metricsData}
                 ELSE {IF m.id \in f.existingMetrics
                         THEN [id |-> m.id] @@ [f.metricsData EXCEPT !.grossPnl = m.grossPnl]
                         ELSE m : m \in dailyMetrics}
      next == [f EXCEPT !.pc = "metrics", !.d = @ + 1, !.metricsData = <<>>,
                        !.existingMetrics = {}]
  IN  /\ f.pc = "m_write"
      /\ IF ~dbUp
           THEN /\ proc' = [proc EXCEPT ![p] = [next EXCEPT !.faulted = TRUE]]
                /\ UNCHANGED dailyMetrics
           ELSE IF ~uniqueUserAccountDate(after)
             THEN /\ proc' = [proc EXCEPT ![p] = next]
                  /\ UNCHANGED dailyMetrics
           ELSE /\ dailyMetrics' = after
                /\ proc' = [proc EXCEPT ![p] = next]
      /\ UNCHANGED <<trades, journalEntries, tradingAccounts, userIngestTokens,
                     dbUp, hookVars, mail, tok, parseVars, hashVars, detectVars, listResp, syncVars>>

\* third await: update the row read, or insert a new one
WriteMetrics(p) ==
  LET f == proc[p]
      after == IF f.existingMetrics = {}
                 THEN dailyMetrics \cup
                        {[id |-> NewId(dailyMetrics)] @@ f.metricsData}
                 ELSE {IF m.id \in f.existingMetrics
                         THEN [id |-> m.id] @@ f.metricsData ELSE m : m \in dailyMetrics}
      next == [f EXCEPT !.pc = "metrics", !.d = @ + 1, !.metricsData = <<>>,
                        !.existingMetrics = {}]
  IN  /\ f.pc = "m_write"
      /\ IF ~dbUp
           THEN /\ proc' = [proc EXCEPT ![p] = [next EXCEPT !.faulted = TRUE]]
                /\ UNCHANGED dailyMetrics
           ELSE IF ~uniqueUserAccountDate(after)
             THEN /\ proc' = [proc EXCEPT ![p] = next]
                  /\ UNCHANGED dailyMetrics
           ELSE /\ dailyMetrics' = after
                /\ proc' = [proc EXCEPT ![p] = next]
      /\ UNCHANGED <<trades, journalEntries, tradingAccounts, userIngestTokens,
                     dbUp, hookVars, mail, tok, parseVars, hashVars, detectVars, listResp, syncVars>>

\* return result
ReturnResult(p) ==
  /\ proc[p].pc = "metrics"
  /\ proc[p].d > Len(proc[p].daysTouched)
  /\ proc' = [proc EXCEPT ![p].pc = "done"]
  /\ UNCHANGED <<dbVars, dbUp, hookVars, mail, tok, parseVars, hashVars, detectVars, listResp, syncVars>>

ImportStep(p) ==
  \/ ParseFailed(p)
  \/ LookupExisting(p)
  \/ WriteTrade(p)
  \/ LoopDone(p)
  \/ ReadDayTrades(p)
  \/ ReadExistingMetrics(p)
  \/ WriteMetrics(p)
  \/ ReturnResult(p)

\* the server process dies while the call is under way: the call takes no
\* further step, the tables keep what was written
Crash(p) ==
  /\ proc[p].pc \notin {"idle", "done", "crashed"}
  /\ proc' = [proc EXCEPT ![p].pc = "crashed"]
  /\ UNCHANGED <<dbVars, dbUp, hookVars, mail, tok, parseVars, hashVars, detectVars,
                 listResp, syncVars>>

(***************************************************************************)
(* Manual trade creation: POST /api/trades (server/routes.ts) and          *)
(* storage.createTrade (server/storage.ts)                                 *)
(***************************************************************************)
\* insertTradeSchema.parse({...req.body, userId}), storage.createTrade: one
\* insert, no metrics recomputation; a storage failure answers 500
PostTrade(userId, body) ==
  LET data == [body EXCEPT !.userId = userId]
      after == TradesAfterInsert(data)
  IN  /\ Cardinality({r \in trades : r.importSource = "NULL"}) < MaxManual
      /\ dbUp
      /\ uniqueRowHashIdx(after)
      /\ \A r \in after : ForeignKeyOk(r)
      /\ trades' = after
      /\ UNCHANGED <<dailyMetrics, journalEntries, tradingAccounts, userIngestTokens,
                     dbUp, proc, hookVars, mail, tok, parseVars, hashVars, detectVars, listResp, syncVars>>

(***************************************************************************)
(* GET /api/trades (server/routes.ts, server/storage.ts)                   *)
(***************************************************************************)
NoList == [status |-> 0, body |-> <<>>]

\* the default of parameter limit of storage.getTrades
DefaultLimit == 100

\* .orderBy(desc(trades.entryTime)).limit(limit): the rows that can stand at
\* place k of the answer, the latest rows first; rows of one entry time come
\* in any order
RowsAt(rows, k) ==
  {r \in rows :
     LET later == Cardinality({q \in rows : q.entryTime.v > r.entryTime.v})
         same == Cardinality({q \in rows : q.entryTime.v = r.entryTime.v})
     IN  later < k /\ k <= later + same}

\* the ways to fill the places that several rows can stand at, no row twice
RECURSIVE TieOrders(_, _, _)
TieOrders(rows, places, used) ==
  IF places = {} THEN {<<>>}
  ELSE LET k == CHOOSE x \in places : \A y \in places : x <= y
       IN  UNION {{[j \in places |-> IF j = k THEN r ELSE f[j]] :
                     f \in TieOrders(rows, places \ {k}, used \cup {r})} :
                    r \in RowsAt(rows, k) \ used}

\* the answers the query can give: no more than limit rows
orderByLimit(rows, limit) ==
  LET n == IF Cardinality(rows) < limit THEN Cardinality(rows) ELSE limit
      tied == {k \in 1..n : Cardinality(RowsAt(rows, k)) > 1}
  IN  {[k \in 1..n |-> IF k \in tied THEN f[k] ELSE CHOOSE r \in RowsAt(rows, k) : TRUE] :
         f \in TieOrders(rows, tied, {})}

\* storage.getTrades: the user's rows, narrowed by account and entry time
\* when the query names them, the latest first, limit rows at most; the
\* answer holds whole rows (select())
getTrades(userId, accountId, from, to, limit) ==
  orderByLimit({r \in trades :
                  /\ r.userId = userId
                  /\ Falsy(accountId) \/ r.tradingAccountId = accountId.v
                  /\ Falsy(from) \/ r.entryTime.v >= newDate(from.v).v
                  /\ Falsy(to) \/ r.entryTime.v <= newDate(to.v).v},
               limit)

\* GET /api/trades for the authenticated user; the route passes no limit
ListTrades(userId, accountId, from, to) ==
  /\ IF dbUp
       THEN \E body \in getTrades(userId, accountId, from, to, DefaultLimit) :
              listResp' = [status |-> 200, body |-> body]
       ELSE listResp' = [status |-> 500, body |-> <<>>]
  /\ UNCHANGED <<dbVars, dbUp, proc, hookVars, mail, tok, parseVars, hashVars, detectVars, syncVars>>

(***************************************************************************)
(* Tradovate routes (server/routes.ts, server/tradovate.ts)                *)
(***************************************************************************)
\* new TradovateAPI()
NewTradovateAPI == [accessToken |-> JNull, refreshToken |-> JNull]

IdleSync ==
  [pc |-> "idle", route |-> "", userId |-> "", accountId |-> <<>>, account |-> JNull,
   authorization |-> JNull, matchingAccount |-> JNull, tradovateTrades |-> <<>>,
   i |-> 0, syncedCount |-> 0, tokens |-> JNull, status |-> 0]

\* the broker: the accounts a login's access token shows, and the fills of
\* an account; a request may also be answered with a status that is not ok
BrokerAccount(token) ==
  IF token = JStr(<<"t", "a">>)
    THEN [id |-> 11, name |-> <<"a", "p", "e", "x", "-", "1">>, accountType |-> "pa"]
  ELSE IF token = JStr(<<"t", "x">>)
    THEN [id |-> 33, name |-> <<"t", "p", "t", "-", "3">>, accountType |-> "live"]
    ELSE [id |-> 22, name |-> <<"t", "s", "-", "2">>, accountType |-> "eval"]
BrokerAccountLists(token) == {<<>>, <<BrokerAccount(token)>>}
BrokerFill(brokerAccountId) ==
  [id |-> brokerAccountId + 1, accountId |-> brokerAccountId, symbol |-> <<"E", "S">>,
   side |-> <<"B", "u", "y">>, quantity |-> 1, price |-> 5,
   timestamp |-> <<"1", "9", "7", "0", "-", "0", "1", "-", "0", "2">>,
   pnl |-> 3, commission |-> 1]
\* fill/list answers for the accounts of the token's login only
BrokerFillLists(token, brokerAccountId) ==
  IF BrokerAccount(token).id = brokerAccountId
    THEN {<<>>, <<BrokerFill(brokerAccountId)>>} ELSE {}

\* the answers of the broker to auth/accesstokenrequest that are ok: the
\* tokens of the login, or an answer that holds no token
BrokerTokens ==
  {[accessToken |-> JStr(<<"t", "x">>), refreshToken |-> JStr(<<"r", "x">>)],
   [accessToken |-> JUndef, refreshToken |-> JUndef]}

\* the answers of the broker to auth/renewaccesstoken that are ok: a new
\* access token, or an answer that holds none
BrokerRenewals == {[accessToken |-> JStr(<<"t", "x">>)], [accessToken |-> JUndef]}

\* the text of a prop_firm enum value
PropFirmText(propFirm) ==
  CASE propFirm = "apex" -> <<"a", "p", "e", "x">>
    [] propFirm = "topstep" -> <<"t", "o", "p", "s", "t", "e", "p">>
    [] propFirm = "takeprofit" -> <<"t", "a", "k", "e", "p", "r", "o", "f", "i", "t">>

\* storage.getTradingAccount: the account row with that id
getTradingAccount(id) ==
  IF \E a \in tradingAccounts : a.id = id
    THEN CHOOSE a \in tradingAccounts : a.id = id ELSE JUndef

\* storage.updateTradingAccount: the row with that id takes the updates;
\* set() leaves out the keys whose value is undefined
updateTradingAccount(id, updates) ==
  LET given == {k \in DOMAIN updates : updates[k] # JUndef}
  IN  {IF a.id = id
         THEN [k \in DOMAIN a \cup given |-> IF k \in given THEN updates[k] ELSE a[k]]
         ELSE a : a \in tradingAccounts}

\* storage.getTradeByExternalId: a row of that user and account with that
\* external id
getTradeByExternalId(userId, accountId, externalId) ==
  {r \in trades : /\ r.userId = userId
                  /\ r.tradingAccountId = accountId
                  /\ r.externalId = JStr(externalId)}

\* the side enum of column trades.side
sideEnum == {LongStr, ShortStr}

\* the values the sync route passes to storage.createTrade
SyncedTrade(userId, accountId, fill) ==
  [userId |-> userId,
   tradingAccountId |-> accountId,
   symbol |-> fill.symbol,
   side |-> toLowerCase(fill.side),
   qty |-> JStr(NumToStr(fill.quantity)),
   entryPrice |-> JStr(NumToStr(fill.price)),
   exitPrice |-> JStr(NumToStr(fill.price)),
   entryTime |-> newDate(fill.timestamp),
   exitTime |-> newDate(fill.timestamp),
   fees |-> JStr(NumToStr(fill.commission)),
   pnl |-> JStr(NumToStr(fill.pnl)),
   brokerExecutionId |-> JUndef,
   rowHash |-> JUndef,
   importSource |-> "NULL"]

SyncReply(p, status) == [sync EXCEPT ![p].pc = "done", ![p].status = status]

\* POST /api/tradovate/sync arrives; storage.getTradingAccount is awaited
StartSync(p, userId, accountId) ==
  /\ sync[p].pc = "idle"
  /\ \A q \in Procs : q < p => sync[q].pc # "idle"
  /\ sync' = [sync EXCEPT ![p] = [IdleSync EXCEPT !.pc = "account", !.route = "sync",
                                                  !.userId = userId,
                                                  !.accountId = accountId]]
  /\ UNCHANGED <<dbVars, dbUp, proc, hookVars, mail, tok, parseVars, hashVars, detectVars, listResp, api, brokerCalls>>

\* the account is read and checked; the handler stores the account's tokens
\* in the exported client and calls getAccounts, whose fetch carries the
\* client's token of that moment
SyncGetAccount(p) ==
  LET f == sync[p]
      account == getTradingAccount(f.accountId)
  IN  /\ f.route = "sync"
      /\ f.pc = "account"
      /\ IF ~dbUp
           THEN sync' = SyncReply(p, 500) /\ UNCHANGED <<api, brokerCalls>>
         ELSE IF account = JUndef \/ account.userId # f.userId
           THEN sync' = SyncReply(p, 404) /\ UNCHANGED <<api, brokerCalls>>
         ELSE IF Falsy(account.tradovateAccessToken)
           THEN sync' = SyncReply(p, 400) /\ UNCHANGED <<api, brokerCalls>>
         ELSE /\ api' = [accessToken |-> account.tradovateAccessToken,
                         refreshToken |-> account.tradovateRefreshToken]
              /\ brokerCalls' = Append(brokerCalls,
                   [request |-> p, path |-> "account/list",
                    token |-> account.tradovateAccessToken])
              /\ sync' = [sync EXCEPT ![p].pc = "accounts", ![p].account = account,
                                      ![p].authorization = account.tradovateAccessToken]
      /\ UNCHANGED <<dbVars, dbUp, proc, hookVars, mail, tok, parseVars, hashVars, detectVars, listResp>>

\* tradovateAccounts.find(...)
MatchingAccounts(tradovateAccounts, account) ==
  {k \in 1..Len(tradovateAccounts) :
     \/ includes(tradovateAccounts[k].name, PropFirmText(account.propFirm))
     \/ tradovateAccounts[k].accountType = account.accountType}

\* getAccounts returns; the handler picks the matching broker account and
\* calls syncAccountTrades, whose fetch in getTrades carries the client's
\* token of that moment
SyncGotAccounts(p) ==
  LET f == sync[p] IN
    /\ f.route = "sync"
    /\ f.pc = "accounts"
    /\ \/ /\ sync' = SyncReply(p, 500)
          /\ UNCHANGED brokerCalls
       \/ \E tradovateAccounts \in BrokerAccountLists(f.authorization) :
            LET matching == MatchingAccounts(tradovateAccounts, f.account) IN
              IF matching = {}
                THEN sync' = SyncReply(p, 404) /\ UNCHANGED brokerCalls
              ELSE IF Falsy(api.accessToken)
                THEN sync' = SyncReply(p, 500) /\ UNCHANGED brokerCalls
              ELSE LET matchingAccount ==
                         tradovateAccounts[CHOOSE k \in matching : \A j \in matching : k <= j]
                   IN /\ brokerCalls' = Append(brokerCalls,
                           [request |-> p, path |-> "fill/list", token |-> api.accessToken])
                      /\ sync' = [sync EXCEPT ![p].pc = "fills",
                                              ![p].matchingAccount = matchingAccount,
                                              ![p].authorization = api.accessToken]
    /\ UNCHANGED <<dbVars, dbUp, proc, hookVars, mail, tok, parseVars, hashVars, detectVars, listResp, api>>

\* where the loop over the fills stands after k of them: at the lookup of
\* the next one, or at the update of the account
SyncAt(f, tradovateTrades, i) ==
  [f EXCEPT !.tradovateTrades = tradovateTrades, !.i = i,
            !.pc = IF i > Len(tradovateTrades) THEN "update" ELSE "lookup"]

\* getTrades returns the fills, or fails
SyncGotTrades(p) ==
  LET f == sync[p] IN
    /\ f.pc = "fills"
    /\ \/ sync' = SyncReply(p, 500)
       \/ /\ BrokerFillLists(f.authorization, f.matchingAccount.id) = {}
          /\ sync' = SyncReply(p, 500)
       \/ \E fills \in BrokerFillLists(f.authorization, f.matchingAccount.id) :
            sync' = [sync EXCEPT ![p] = SyncAt(f, fills, 1)]
    /\ UNCHANGED <<dbVars, dbUp, proc, hookVars, mail, tok, parseVars, hashVars, detectVars, listResp, api, brokerCalls>>

\* storage.getTradeByExternalId for the fill at hand
SyncLookupTrade(p) ==
  LET f == sync[p]
      fill == f.tradovateTrades[f.i]
  IN  /\ f.pc = "lookup"
      /\ IF ~dbUp THEN sync' = SyncReply(p, 500)
         ELSE IF getTradeByExternalId(f.userId, f.accountId, NatToStr(fill.id)) = {}
           THEN sync' = [sync EXCEPT ![p].pc = "create"]
         ELSE sync' = [sync EXCEPT ![p] = SyncAt(f, f.tradovateTrades, f.i + 1)]
      /\ UNCHANGED <<dbVars, dbUp, proc, hookVars, mail, tok, parseVars, hashVars, detectVars, listResp, api, brokerCalls>>

\* storage.createTrade for a fill no row was found for
SyncCreateTrade(p) ==
  LET f == sync[p]
      data == SyncedTrade(f.userId, f.accountId, f.tradovateTrades[f.i])
      after == TradesAfterInsert(data)
  IN  /\ f.pc = "create"
      /\ IF /\ dbUp
            /\ data.side \in sideEnum
            /\ uniqueRowHashIdx(after)
            /\ \A r \in after : ForeignKeyOk(r)
           THEN /\ trades' = after
                /\ sync' = [sync EXCEPT
                     ![p] = [SyncAt(f, f.tradovateTrades, f.i + 1)
                               EXCEPT !.syncedCount = f.syncedCount + 1]]
           ELSE /\ sync' = SyncReply(p, 500)
                /\ UNCHANGED trades
      /\ UNCHANGED <<dailyMetrics, journalEntries, tradingAccounts, userIngestTokens, dbUp,
                     proc, hookVars, mail, tok, parseVars, hashVars, detectVars,
                     listResp, api, brokerCalls>>

\* storage.updateTradingAccount(accountId, {lastSyncAt}) and the response;
\* the time of the last sync is not part of the account rows of the model
SyncUpdateAccount(p) ==
  /\ sync[p].pc = "update"
  /\ sync' = SyncReply(p, IF dbUp THEN 200 ELSE 500)
  /\ UNCHANGED <<dbVars, dbUp, proc, hookVars, mail, tok, parseVars, hashVars, detectVars, listResp, api, brokerCalls>>

SyncStep(p) ==
  \/ SyncGetAccount(p)
  \/ SyncGotAccounts(p)
  \/ SyncGotTrades(p)
  \/ SyncLookupTrade(p)
  \/ SyncCreateTrade(p)
  \/ SyncUpdateAccount(p)

\* GET /api/tradovate/accounts arrives; storage.getTradingAccount is awaited
StartAccounts(p, userId, accountId) ==
  /\ sync[p].pc = "idle"
  /\ \A q \in Procs : q < p => sync[q].pc # "idle"
  /\ sync' = [sync EXCEPT ![p] = [IdleSync EXCEPT !.pc = "account", !.route = "accounts",
                                                  !.userId = userId,
                                                  !.accountId = accountId]]
  /\ UNCHANGED <<dbVars, dbUp, proc, hookVars, mail, tok, parseVars, hashVars, detectVars, listResp, api, brokerCalls>>

\* the account is read and checked; the handler stores the account's tokens
\* in the exported client and calls getAccounts, whose fetch carries the
\* client's token of that moment
AccountsGetAccount(p) ==
  LET f == sync[p]
      account == getTradingAccount(f.accountId)
  IN  /\ f.route = "accounts"
      /\ f.pc = "account"
      /\ IF ~dbUp
           THEN sync' = SyncReply(p, 500) /\ UNCHANGED <<api, brokerCalls>>
         ELSE IF account = JUndef \/ account.userId # f.userId
           THEN sync' = SyncReply(p, 404) /\ UNCHANGED <<api, brokerCalls>>
         ELSE IF Falsy(account.tradovateAccessToken)
           THEN sync' = SyncReply(p, 400) /\ UNCHANGED <<api, brokerCalls>>
         ELSE /\ api' = [accessToken |-> account.tradovateAccessToken,
                         refreshToken |-> account.tradovateRefreshToken]
              /\ brokerCalls' = Append(brokerCalls,
                   [request |-> p, path |-> "account/list",
                    token |-> account.tradovateAccessToken])
              /\ sync' = [sync EXCEPT ![p].pc = "accounts", ![p].account = account,
                                      ![p].authorization = account.tradovateAccessToken]
      /\ UNCHANGED <<dbVars, dbUp, proc, hookVars, mail, tok, parseVars, hashVars, detectVars, listResp>>

\* getAccounts returns the broker's accounts, which are the answer, or fails
AccountsGotAccounts(p) ==
  /\ sync[p].route = "accounts"
  /\ sync[p].pc = "accounts"
  /\ \E status \in {200, 500} : sync' = SyncReply(p, status)
  /\ UNCHANGED <<dbVars, dbUp, proc, hookVars, mail, tok, parseVars, hashVars, detectVars, listResp, api, brokerCalls>>

AccountsStep(p) ==
  \/ AccountsGetAccount(p)
  \/ AccountsGotAccounts(p)

\* POST /api/tradovate/auth arrives and calls authenticate, which sends
\* auth/accesstokenrequest with no Authorization header; reading the fields
\* of credentials the body does not hold throws before anything is sent
StartAuth(p, userId, accountId, credentials) ==
  /\ sync[p].pc = "idle"
  /\ \A q \in Procs : q < p => sync[q].pc # "idle"
  /\ IF Nullish(credentials)
       THEN /\ sync' = [sync EXCEPT ![p] = [IdleSync EXCEPT !.pc = "done", !.route = "auth",
                                                          !.userId = userId,
                                                          !.accountId = accountId,
                                                          !.status = 500]]
            /\ UNCHANGED brokerCalls
       ELSE /\ sync' = [sync EXCEPT ![p] = [IdleSync EXCEPT !.pc = "authenticate",
                                                          !.route = "auth",
                                                          !.userId = userId,
                                                          !.accountId = accountId]]
            /\ brokerCalls' = Append(brokerCalls,
                 [request |-> p, path |-> "auth/accesstokenrequest", token |-> JUndef])
  /\ UNCHANGED <<dbVars, dbUp, proc, hookVars, mail, tok, parseVars, hashVars, detectVars, listResp, api>>

\* the broker answers: authenticate stores the tokens of the answer in the
\* exported client and returns them, or throws on an answer that is not ok;
\* storage.updateTradingAccount is awaited
AuthGotTokens(p) ==
  /\ sync[p].route = "auth"
  /\ sync[p].pc = "authenticate"
  /\ \/ /\ sync' = SyncReply(p, 500)
        /\ UNCHANGED api
     \/ \E data \in BrokerTokens :
          /\ api' = data
          /\ sync' = [sync EXCEPT ![p].pc = "store", ![p].tokens = data]
  /\ UNCHANGED <<dbVars, dbUp, proc, hookVars, mail, tok, parseVars, hashVars, detectVars, listResp, brokerCalls>>

\* storage.updateTradingAccount(accountId, {tradovateAccessToken,
\* tradovateRefreshToken, lastSyncAt}) for the account id of the body, whoever
\* owns the account, and the response; the time of the last sync is not part
\* of the account rows of the model
AuthUpdateAccount(p) ==
  LET f == sync[p] IN
    /\ f.route = "auth"
    /\ f.pc = "store"
    /\ IF dbUp
         THEN /\ tradingAccounts' = updateTradingAccount(f.accountId,
                   [tradovateAccessToken |-> f.tokens.accessToken,
                    tradovateRefreshToken |-> f.tokens.refreshToken])
              /\ sync' = SyncReply(p, 200)
         ELSE /\ sync' = SyncReply(p, 500)
              /\ UNCHANGED tradingAccounts
    /\ UNCHANGED <<trades, dailyMetrics, journalEntries, userIngestTokens, dbUp,
                   proc, hookVars, mail, tok, parseVars, hashVars, detectVars,
                   listResp, api, brokerCalls>>

AuthStep(p) ==
  \/ AuthGotTokens(p)
  \/ AuthUpdateAccount(p)

\* tradovateAPI.refreshAccessToken(refreshToken) is called on the exported
\* client: it sends auth/renewaccesstoken with the refresh token it was given
StartRefresh(p, refreshToken) ==
  /\ sync[p].pc = "idle"
  /\ \A q \in Procs : q < p => sync[q].pc # "idle"
  /\ sync' = [sync EXCEPT ![p] = [IdleSync EXCEPT !.pc = "renew", !.route = "refresh",
                                                  !.authorization = refreshToken]]
  /\ brokerCalls' = Append(brokerCalls,
       [request |-> p, path |-> "auth/renewaccesstoken", token |-> refreshToken])
  /\ UNCHANGED <<dbVars, dbUp, proc, hookVars, mail, tok, parseVars, hashVars, detectVars, listResp, api>>

\* the broker answers: on an ok answer refreshAccessToken stores the access
\* token of the answer in the exported client, undefined when the answer holds
\* none, leaves the client's refresh token and returns the access token; on
\* an answer that is not ok it throws and stores nothing
RefreshGotToken(p) ==
  /\ sync[p].route = "refresh"
  /\ sync[p].pc = "renew"
  /\ \/ /\ sync' = [sync EXCEPT ![p].pc = "thrown"]
        /\ UNCHANGED api
     \/ \E data \in BrokerRenewals :
          /\ api' = [api EXCEPT !.accessToken = data.accessToken]
          /\ sync' = [sync EXCEPT ![p].pc = "returned", ![p].tokens = data.accessToken]
  /\ UNCHANGED <<dbVars, dbUp, proc, hookVars, mail, tok, parseVars, hashVars, detectVars, listResp, brokerCalls>>

(***************************************************************************)
(* TradingView webhook (server/storage.ts)                                 *)
(***************************************************************************)
\* a verifier that lets every request through
verifyWebhookSecretOpen(providedSecret, expectedSecret) == TRUE

\* verifyWebhookSecret: the x-webhook-secret header against TV_SECRET; no
\* configured secret rejects every request
verifyWebhookSecret(providedSecret, expectedSecret) ==
  IF Falsy(expectedSecret) THEN FALSE ELSE providedSecret = expectedSecret

\* resolveUserFromToken: the row with that token, active or not; a failed
\* query is caught and answers null
resolveUserFromToken(token) ==
  IF dbUp /\ \E k \in userIngestTokens : k.token = token
    THEN {(CHOOSE k \in userIngestTokens : k.token = token).userId}
    ELSE {}

DefaultAccountId ==
  <<"d", "e", "f", "a", "u", "l", "t", "-", "a", "c", "c", "o", "u", "n", "t", "-", "i", "d">>

\* the tagMapping table of findTradingAccountByTag, which it never reads
tagMapping ==
  [t \in {"apex-eval", "apex-pa", "topstep-eval", "topstep-pa", "tpt-live"} |->
     CASE t = "apex-eval" -> [propFirm |-> "apex", accountType |-> "eval"]
       [] t = "apex-pa" -> [propFirm |-> "apex", accountType |-> "pa"]
       [] t = "topstep-eval" -> [propFirm |-> "topstep", accountType |-> "eval"]
       [] t = "topstep-pa" -> [propFirm |-> "topstep", accountType |-> "pa"]
       [] t = "tpt-live" -> [propFirm |-> "takeprofit", accountType |-> "live"]]

\* findTradingAccountByTag: a placeholder, whatever the tag
findTradingAccountByTag(userId, accountTag) == DefaultAccountId

normalizeSide(side) ==
  LET upperSide == toUpperCase(side) IN
    IF upperSide = <<"B", "U", "Y">> \/ upperSide = <<"L", "O", "N", "G">> THEN LongStr
    ELSE IF upperSide = <<"S", "E", "L", "L">> \/ upperSide = <<"S", "H", "O", "R", "T">>
      THEN ShortStr
    ELSE LongStr

\* Date.now(): the readings of the clock
Clock == {MsPerDay, 2 * MsPerDay}

\* new Date(payload.time || Date.now()): an empty time takes the clock
executedAt(payload, now) ==
  IF payload.time = <<>> THEN JDate(now) ELSE newDate(payload.time)

\* the values createTradeIntent inserts
TradeIntent(userId, accountId, payload, entryTime) ==
  [userId |-> userId,
   tradingAccountId |-> accountId,
   symbol |-> payload.symbol,
   side |-> normalizeSide(payload.side),
   qty |-> JStr(NumToStr(payload.qty)),
   entryPrice |-> JStr(NumToStr(payload.price)),
   exitPrice |-> JNull,
   entryTime |-> entryTime,
   exitTime |-> JNull,
   fees |-> JStr(<<"0">>),
   pnl |-> JNull,
   brokerExecutionId |-> JUndef,
   rowHash |-> JUndef,
   importSource |-> "tradingview_webhook",
   source |-> "tv",
   externalId |-> IF Falsy(payload.orderId)
                    THEN JStr(<<"t", "v", "_">> \o NatToStr(NewId(trades)))
                    ELSE payload.orderId]

\* the values createJournalEntryWithScreenshot inserts
JournalEntry(userId, accountId, payload, entryDate) ==
  [id |-> NewId(journalEntries),
   userId |-> userId,
   tradingAccountId |-> JStr(accountId),
   entryDate |-> entryDate,
   title |-> <<"TradingView Alert - ">> \o payload.symbol]

\* the journal_entries foreign key on trading_account_id, which may be null
JournalKeyOk(row) ==
  row.tradingAccountId = JNull
    \/ \E a \in tradingAccounts : JStr(a.id) = row.tradingAccountId

\* the requests the frames have taken so far
RECURSIVE Served(_, _)
Served(frames, S) ==
  IF S = {} THEN 0
  ELSE LET p == CHOOSE q \in S : TRUE IN frames[p].n + Served(frames, S \ {p})

\* the frame of a webhook request, taken again for a new request once the
\* request is answered; n (the requests the frame has taken), log (the steps
\* taken), tradeIds and entryIds (the rows it inserted) and faulted (a
\* storage operation of the request failed) are history fields the code does
\* not keep
IdleHook ==
  [pc |-> "idle", n |-> 0, secret |-> JUndef, payload |-> <<>>, userId |-> "", accountId |-> <<>>,
   executedAt |-> JNull, entryDate |-> JNull, status |-> 0, error |-> "", log |-> <<>>,
   tradeIds |-> {}, entryIds |-> {}, faulted |-> FALSE]

\* res.status(status).json({error}), or res.json({success: true, ...})
HookReply(f, status, error) == [f EXCEPT !.pc = "done", !.status = status, !.error = error]

\* handleTradingViewWebhook up to its first await: the secret is verified,
\* then the token query is sent
handleTradingViewWebhook(p, providedSecret, payload) ==
  LET f == [IdleHook EXCEPT !.n = hook[p].n + 1, !.secret = providedSecret,
                            !.payload = payload, !.log = <<"verifyWebhookSecret">>]
  IN  /\ hook[p].pc \in {"idle", "done"}
      /\ \A q \in Procs : q < p => hook[q].pc # "idle"
      /\ Served(hook, Procs) < MaxHooks
      /\ hook' = [hook EXCEPT ![p] =
           IF ~verifyWebhookSecret(providedSecret, tvSecret)
             THEN HookReply(f, 403, "Invalid webhook secret")
             ELSE [f EXCEPT !.pc = "resolve"]]
      /\ UNCHANGED <<dbVars, dbUp, proc, tvSecret, mail, tok, parseVars, hashVars,
                     detectVars, listResp, syncVars>>

\* the token query answers; findTradingAccountByTag awaits nothing; then
\* createTradeIntent reads the clock and sends its insert
HookUserResolved(p) ==
  LET f == [hook[p] EXCEPT !.log = Append(@, "resolveUserFromToken"),
                           !.faulted = ~dbUp]
      user == resolveUserFromToken(f.payload.userToken)
      userId == CHOOSE u \in user : TRUE
      accountId == findTradingAccountByTag(userId, f.payload.accountTag)
  IN  /\ hook[p].pc = "resolve"
      /\ \E now \in Clock :
           hook' = [hook EXCEPT ![p] =
             IF user = {} THEN HookReply(f, 404, "User not found")
             ELSE IF Falsy(JStr(accountId))
               THEN HookReply([f EXCEPT !.log = Append(@, "findTradingAccountByTag")],
                              404, "Trading account not found")
             ELSE [f EXCEPT !.pc = "trade", !.userId = userId, !.accountId = accountId,
                            !.executedAt = executedAt(f.payload, now),
                            !.log = @ \o <<"findTradingAccountByTag", "createTradeIntent">>]]
      /\ UNCHANGED <<dbVars, dbUp, proc, tvSecret, mail, tok, parseVars, hashVars,
                     detectVars, listResp, syncVars>>

\* the insert of createTradeIntent answers: a failure is thrown on and
\* answered 500; otherwise createJournalEntryWithScreenshot reads the clock
\* and sends its insert
createTradeIntent(p) ==
  LET f == hook[p]
      intent == TradeIntent(f.userId, f.accountId, f.payload, f.executedAt)
      after == TradesAfterInsert(intent)
  IN  /\ f.pc = "trade"
      /\ IF \/ ~dbUp
            \/ f.executedAt = JNull
            \/ ~(uniqueRowHashIdx(after) /\ \A r \in after : ForeignKeyOk(r))
           THEN /\ hook' = [hook EXCEPT ![p] =
                     HookReply([f EXCEPT !.faulted = ~dbUp], 500, "Webhook processing failed")]
                /\ UNCHANGED trades
           ELSE /\ trades' = after
                /\ \E now \in Clock :
                     hook' = [hook EXCEPT ![p] =
                       [f EXCEPT !.pc = "journal",
                                 !.tradeIds = {NewId(trades)},
                                 !.entryDate = JStr(isoDate(executedAt(f.payload, now).v)),
                                 !.log = Append(@, "createJournalEntryWithScreenshot")]]
      /\ UNCHANGED <<dailyMetrics, journalEntries, tradingAccounts, userIngestTokens, dbUp,
                     proc, tvSecret, mail, tok, parseVars, hashVars, detectVars, listResp,
                     syncVars>>

\* the insert of createJournalEntryWithScreenshot answers: a failure is
\* thrown on and answered 500, the ledger row stays; otherwise
\* markDayPendingReconcile logs and the request is answered
createJournalEntryWithScreenshot(p) ==
  LET f == hook[p]
      entry == JournalEntry(f.userId, f.accountId, f.payload, f.entryDate.v)
  IN  /\ f.pc = "journal"
      /\ IF ~dbUp \/ ~JournalKeyOk(entry)
           THEN /\ hook' = [hook EXCEPT ![p] =
                     HookReply([f EXCEPT !.faulted = ~dbUp], 500, "Webhook processing failed")]
                /\ UNCHANGED journalEntries
           ELSE /\ journalEntries' = journalEntries \cup {entry}
                /\ hook' = [hook EXCEPT ![p] =
                     HookReply([f EXCEPT !.entryIds = {entry.id},
                                         !.log = Append(@, "markDayPendingReconcile")],
                               200, "")]
      /\ UNCHANGED <<trades, dailyMetrics, tradingAccounts, userIngestTokens, dbUp, proc,
                     tvSecret, mail, tok, parseVars, hashVars, detectVars, listResp, syncVars>>

\* the step a request is at; the journal entry comes only after the ledger
\* row was inserted, into an account with the id findTradingAccountByTag
\* returns
HookStep(p) ==
  CASE hook[p].pc = "resolve" -> HookUserResolved(p)
    [] hook[p].pc = "trade" -> createTradeIntent(p)
    [] hook[p].pc = "journal" -> createJournalEntryWithScreenshot(p)
    [] OTHER -> FALSE

(***************************************************************************)
(* Journal entries and trading accounts: POST /api/journal-entries,        *)
(* POST /api/journal, POST /api/trading-accounts (server/routes.ts),       *)
(* storage.updateJournalEntry (server/storage.ts)                          *)
(***************************************************************************)

\* storage.createJournalEntry: the row of db.insert(journalEntries)
createJournalEntry(entry) ==
  [id |-> NewId(journalEntries),
   userId |-> entry.userId,
   tradingAccountId |-> IF Nullish(entry.tradingAccountId) THEN JNull
                          ELSE entry.tradingAccountId,
   entryDate |-> entry.entryDate,
   title |-> entry.title]

\* insertJournalEntrySchema.parse({...req.body, userId}) and
\* storage.createJournalEntry: one insert; a body without entryDate is
\* answered 400, a storage failure 500, and neither writes
PostJournalEntry(userId, body) ==
  LET row == createJournalEntry([body EXCEPT !.userId = userId]) IN
    /\ Cardinality(journalEntries) < MaxJournal
    /\ body.entryDate # <<>>
    /\ dbUp
    /\ JournalKeyOk(row)
    /\ journalEntries' = journalEntries \cup {row}
    /\ UNCHANGED <<trades, dailyMetrics, tradingAccounts, userIngestTokens, dbUp, proc,
                   hookVars, mail, tok, parseVars, hashVars, detectVars, listResp, syncVars>>

\* storage.updateJournalEntry: the row with that id takes the updates, a
\* row of any user; set() leaves out the keys whose value is undefined and
\* throws when no value is left; an id no row has changes nothing, a storage
\* failure or a broken foreign key throws and writes nothing
updateJournalEntry(id, updates) ==
  LET given == {k \in DOMAIN updates : updates[k] # JUndef}
      after == {IF e.id = id
                  THEN [k \in DOMAIN e |-> IF k \in given THEN updates[k] ELSE e[k]]
                  ELSE e : e \in journalEntries}
  IN  /\ given # {}
      /\ dbUp
      /\ \A e \in after : JournalKeyOk(e)
      /\ journalEntries' = after
      /\ UNCHANGED <<trades, dailyMetrics, tradingAccounts, userIngestTokens, dbUp, proc,
                     hookVars, mail, tok, parseVars, hashVars, detectVars, listResp, syncVars>>

propFirmEnum == {"apex", "topstep", "takeprofit"}
accountTypeEnum == {"eval", "pa", "live"}

\* gen_random_uuid() of trading_accounts.id: an id no account has
NewAccountId ==
  <<"i", "d">> \o NatToStr(Cardinality({a \in tradingAccounts : a.id[1] = "i"}) + 1)

\* storage.createTradingAccount: the row of db.insert(tradingAccounts)
createTradingAccount(account) ==
  [id |-> NewAccountId, userId |-> account.userId, propFirm |-> account.propFirm,
   accountType |-> account.accountType]

\* insertTradingAccountSchema.parse({...req.body, userId}) and
\* storage.createTradingAccount: one insert; a body outside the enums is
\* answered 400, a storage failure 500, and neither writes
PostTradingAccount(userId, body) ==
  /\ Cardinality({a \in tradingAccounts : a.id[1] = "i"}) < MaxAccounts
  /\ body.propFirm \in propFirmEnum
  /\ body.accountType \in accountTypeEnum
  /\ dbUp
  /\ tradingAccounts' = tradingAccounts \cup {createTradingAccount([body EXCEPT !.userId = userId])}
  /\ UNCHANGED <<trades, dailyMetrics, journalEntries, userIngestTokens, dbUp, proc,
                 hookVars, mail, tok, parseVars, hashVars, detectVars, listResp, syncVars>>

(***************************************************************************)
(* Inbound email (server/emailIngest.ts)                                   *)
(***************************************************************************)
IsAlnum(c) ==
  \/ IsDigit(c)
  \/ \E i \in 1..26 : UpperChars[i] = c \/ LowerChars[i] = c

\* the end of the longest run of [a-zA-Z0-9] that starts at position i
RECURSIVE AlnumRunEnd(_, _)
AlnumRunEnd(s, i) ==
  IF i <= Len(s) /\ IsAlnum(s[i]) THEN AlnumRunEnd(s, i + 1) ELSE i - 1

\* a matcher that falls back to the token t1 when the address carries none
matchTokenLax(toAddress) == {<<"t", "1">>}

\* toAddress.match(/\+([a-zA-Z0-9]+)@/): the capture of the leftmost match
matchToken(toAddress) ==
  LET starts == {i \in 1..Len(toAddress) :
                   /\ toAddress[i] = "+"
                   /\ AlnumRunEnd(toAddress, i + 1) > i
                   /\ AlnumRunEnd(toAddress, i + 1) < Len(toAddress)
                   /\ toAddress[AlnumRunEnd(toAddress, i + 1) + 1] = "@"}
  IN  IF starts = {} THEN {}
      ELSE LET i == CHOOSE k \in starts : \A j \in starts : k <= j
           IN  {SubSeq(toAddress, i + 1, AlnumRunEnd(toAddress, i + 1))}

\* resolveUserFromEmail: the owner of the token of the address, active or
\* not; a missing address and a failed query are caught and answer null
resolveUserFromEmail(toAddress) ==
  IF toAddress.t # "str" \/ matchToken(toAddress.v) = {} THEN {}
  ELSE LET token == CHOOSE t \in matchToken(toAddress.v) : TRUE
       IN  IF dbUp /\ \E k \in userIngestTokens : k.token = token
             THEN {(CHOOSE k \in userIngestTokens : k.token = token).userId}
             ELSE {}

startsWith(s, prefix) == Len(s) >= Len(prefix) /\ SubSeq(s, 1, Len(prefix)) = prefix
endsWith(s, suffix) ==
  Len(s) >= Len(suffix) /\ SubSeq(s, Len(s) - Len(suffix) + 1, Len(s)) = suffix

\* file.mimetype === 'text/csv' || file.originalname.endsWith('.csv')
IsCsvFile(file) ==
  file.mimetype = <<"t", "e", "x", "t", "/", "c", "s", "v">> \/ endsWith(file.originalname, <<".", "c", "s", "v">>)
\* file.mimetype.startsWith('image/')
IsImageFile(file) == startsWith(file.mimetype, <<"i", "m", "a", "g", "e", "/">>)

\* parseStatementTable(htmlContent).length: the HTML is held as its tables,
\* a table as its rows, a row as the number of its td cells; the first row
\* of a table is skipped and a row counts from six cells on
RECURSIVE parseStatementTable(_)
parseStatementTable(tables) ==
  IF tables = <<>> THEN 0
  ELSE Cardinality({i \in 2..Len(Head(tables)) : Head(tables)[i] >= 6})
         + parseStatementTable(Tail(tables))

\* the journal entry of an image attachment
ImageEntry(userId, today, rows) ==
  [id |-> NewId(rows),
   userId |-> userId,
   tradingAccountId |-> JNull,
   entryDate |-> today,
   title |-> <<"TradingView Alert">>]

\* the next attachment after position i that the image loop handles, 0 when
\* there is none
NextImage(files, i) ==
  LET later == {k \in (i + 1)..Len(files) : IsImageFile(files[k])}
  IN  IF later = {} THEN 0 ELSE CHOOSE k \in later : \A j \in later : k <= j

\* the frame of an inbound email, taken again for a new email once the
\* request is answered; n (the emails the frame has taken), entryIds (the
\* journal rows it inserted) and faulted (a storage operation of the request
\* failed) are history fields the code does not keep
IdleMail ==
  [pc |-> "idle", n |-> 0, to |-> JUndef, html |-> <<>>, files |-> <<>>, userId |-> "", i |-> 0,
   today |-> <<>>, status |-> 0, error |-> "", trades |-> 0, journalEntries |-> 0,
   entryIds |-> {}, faulted |-> FALSE]

\* res.status(404).json({error}), or res.json({success: true, processed})
MailReply(f, status, error) == [f EXCEPT !.pc = "done", !.status = status, !.error = error]

\* handleEmailIngest up to its first await: resolveUserFromEmail answers
\* null without a query when the address is missing or carries no token,
\* otherwise the token query is sent
handleEmailIngest(p, toAddress, htmlContent, files) ==
  LET f == [IdleMail EXCEPT !.n = mail[p].n + 1, !.to = toAddress, !.html = htmlContent,
                            !.files = files]
  IN  /\ mail[p].pc \in {"idle", "done"}
      /\ \A q \in Procs : q < p => mail[q].pc # "idle"
      /\ Served(mail, Procs) < MaxMails
      /\ mail' = [mail EXCEPT ![p] =
           IF toAddress.t # "str" \/ matchToken(toAddress.v) = {}
             THEN MailReply(f, 404, "User not found")
             ELSE [f EXCEPT !.pc = "resolve"]]
      /\ UNCHANGED <<dbVars, dbUp, proc, hookVars, tok, parseVars, hashVars, detectVars,
                     listResp, syncVars>>

\* the token query answers: an unknown token is answered 404; otherwise one
\* trade is counted per CSV attachment (its content is not read) and one per
\* statement table row, the account tag of the subject is not used, and the
\* image loop reads the clock and sends the insert of its first image
MailUserResolved(p) ==
  LET f == [mail[p] EXCEPT !.faulted = ~dbUp]
      user == resolveUserFromEmail(f.to)
      csvFiles == Len(SelectSeq(f.files, IsCsvFile))
      g == [f EXCEPT !.userId = CHOOSE u \in user : TRUE,
                     !.trades = csvFiles + parseStatementTable(f.html)]
      next == NextImage(f.files, 0)
  IN  /\ mail[p].pc = "resolve"
      /\ \E now \in Clock :
           mail' = [mail EXCEPT ![p] =
             IF user = {} THEN MailReply(f, 404, "User not found")
             ELSE IF next = 0 THEN MailReply(g, 200, "")
             ELSE [g EXCEPT !.pc = "image", !.i = next, !.today = isoDate(now)]]
      /\ UNCHANGED <<dbVars, dbUp, proc, hookVars, tok, parseVars, hashVars, detectVars,
                     listResp, syncVars>>

\* the insert of an image's journal entry answers: a failure is caught and
\* the image not counted; then the next image, or the response
MailInsertImage(p) ==
  LET f == mail[p]
      entry == ImageEntry(f.userId, f.today, journalEntries)
      g == IF dbUp THEN [f EXCEPT !.journalEntries = @ + 1, !.entryIds = @ \cup {entry.id}]
                   ELSE [f EXCEPT !.faulted = TRUE]
      next == NextImage(f.files, f.i)
  IN  /\ f.pc = "image"
      /\ journalEntries' = IF dbUp THEN journalEntries \cup {entry} ELSE journalEntries
      /\ \E now \in Clock :
           mail' = [mail EXCEPT ![p] =
             IF next = 0 THEN MailReply(g, 200, "")
             ELSE [g EXCEPT !.i = next, !.today = isoDate(now)]]
      /\ UNCHANGED <<trades, dailyMetrics, tradingAccounts, userIngestTokens, dbUp, proc,
                     hookVars, tok, parseVars, hashVars, detectVars, listResp, syncVars>>

MailStep(p) == MailUserResolved(p) \/ MailInsertImage(p)

(***************************************************************************)
(* Ingestion tokens: generateIngestToken (server/emailIngest.ts) and       *)
(* getTradingViewWebhookConfig (server/storage.ts)                         *)
(***************************************************************************)
IdleTok ==
  [pc |-> "idle", kind |-> "", userId |-> "", hadActive |-> {}, token |-> <<>>, status |-> 0,
   created |-> FALSE]

\* the active tokens of a user
ActiveTokens(userId) ==
  {k.token : k \in {r \in userIngestTokens : r.userId = userId /\ r.isActive}}

\* a request arrives: GET /api/settings/ingest-token calls
\* generateIngestToken, GET /api/settings/tradingview-webhook first reads the user
StartToken(p, kind, userId) ==
  /\ tok[p].pc = "idle"
  /\ \A q \in Procs : q < p => tok[q].pc # "idle"
  /\ tok' = [tok EXCEPT ![p] =
       [IdleTok EXCEPT !.pc = IF kind = "getTradingViewWebhookConfig" THEN "user" ELSE "select",
                       !.kind = kind, !.userId = userId,
                       !.hadActive = ActiveTokens(userId)]]
  /\ UNCHANGED <<dbVars, dbUp, proc, hookVars, mail, parseVars, hashVars, detectVars, listResp, syncVars>>

\* getTradingViewWebhookConfig: the user of the session exists
TokenUser(p) ==
  /\ tok[p].pc = "user"
  /\ tok' = [tok EXCEPT ![p].pc = IF dbUp THEN "select" ELSE "done",
                        ![p].status = IF dbUp THEN 0 ELSE 500]
  /\ UNCHANGED <<dbVars, dbUp, proc, hookVars, mail, parseVars, hashVars, detectVars, listResp, syncVars>>

\* select ... where userId limit 1: any one row of the user; an active row
\* is returned, otherwise a new token is to be inserted
TokenSelect(p) ==
  /\ tok[p].pc = "select"
  /\ LET mine == {k \in userIngestTokens : k.userId = tok[p].userId} IN
       IF ~dbUp
         THEN tok' = [tok EXCEPT ![p].pc = "done", ![p].status = 500]
       ELSE IF mine = {}
         THEN tok' = [tok EXCEPT ![p].pc = "insert"]
       ELSE \E existing \in mine :
              tok' = [tok EXCEPT ![p] =
                IF existing.isActive
                  THEN [@ EXCEPT !.pc = "done", !.token = existing.token, !.status = 200]
                  ELSE [@ EXCEPT !.pc = "insert"]]
  /\ UNCHANGED <<dbVars, dbUp, proc, hookVars, mail, parseVars, hashVars, detectVars, listResp, syncVars>>

\* nanoid(10): a token no row holds
NewToken == <<"n">> \o NatToStr(Cardinality(userIngestTokens) + 1)

\* db.insert(userIngestTokens).values({userId, token, isActive: true})
TokenInsert(p) ==
  /\ tok[p].pc = "insert"
  /\ IF ~dbUp
       THEN /\ tok' = [tok EXCEPT ![p].pc = "done", ![p].status = 500]
            /\ UNCHANGED userIngestTokens
       ELSE /\ userIngestTokens' = userIngestTokens \cup
                 {[userId |-> tok[p].userId, token |-> NewToken, isActive |-> TRUE]}
            /\ tok' = [tok EXCEPT ![p].pc = "done", ![p].token = NewToken, ![p].status = 200,
                                  ![p].created = TRUE]
  /\ UNCHANGED <<trades, dailyMetrics, journalEntries, tradingAccounts, dbUp, proc,
                 hookVars, mail, parseVars, hashVars, detectVars, listResp, syncVars>>

TokenStep(p) == TokenUser(p) \/ TokenSelect(p) \/ TokenInsert(p)

\* the storage engine becomes unreachable, or reachable again
StorageOutage ==
  /\ dbUp' = ~dbUp
  /\ UNCHANGED <<dbVars, proc, hookVars, mail, tok, parseVars, hashVars, detectVars, listResp, syncVars>>

\* a stand-alone call of parseCsvRow
ParseRow ==
  /\ pOut = JUndef
  /\ pRow # <<>>
  /\ pOut' = parseCsvRow(pRow, pMapping)
  /\ UNCHANGED <<dbVars, dbUp, proc, hookVars, mail, tok, pRow, pMapping, hashVars, detectVars, listResp, syncVars>>

\* stand-alone calls of generateRowHash on two trade candidates
HashRows ==
  /\ hIn # <<>>
  /\ hOut = <<>>
  /\ hOut' = <<generateRowHash(hIn.a, hIn.accountId), generateRowHash(hIn.b, hIn.accountIdB)>>
  /\ UNCHANGED <<dbVars, dbUp, proc, hookVars, mail, tok, parseVars, hIn, detectVars, listResp, syncVars>>

(***************************************************************************)
(* Format detection (server/csvImport.ts)                                  *)
(***************************************************************************)
\* APEX_PATTERNS.mappings
ApexMapping ==
  [symbol |-> "Contract", side |-> "Side", qty |-> "Qty", entryPrice |-> "Entry Price",
   exitPrice |-> "Exit Price", entryTime |-> "Entry Time", exitTime |-> "Exit Time",
   fees |-> "Commissions", pnl |-> "P/L"]
\* TOPSTEP_PATTERNS.mappings
TopstepMapping ==
  [symbol |-> "Instrument", side |-> "Buy/Sell", qty |-> "Quantity",
   entryPrice |-> "Entry Price", exitPrice |-> "Exit Price", entryTime |-> "Time",
   exitTime |-> "Exit Time", fees |-> "Fees", pnl |-> "PnL"]
\* TPT_PATTERNS.mappings
TptMapping ==
  [symbol |-> "Symbol", side |-> "Side", qty |-> "Filled Qty", entryPrice |-> "Avg Price",
   exitPrice |-> "Exit Price", entryTime |-> "Time", exitTime |-> "Exit Time",
   fees |-> "Fees", pnl |-> "Realized PnL"]

APEX_PATTERNS ==
  [headers |-> <<<<"E", "n", "t", "r", "y", " ", "T", "i", "m", "e">>,
                <<"E", "x", "i", "t", " ", "T", "i", "m", "e">>,
                <<"C", "o", "n", "t", "r", "a", "c", "t">>,
                <<"P", "/", "L">>,
                <<"C", "o", "m", "m", "i", "s", "s", "i", "o", "n", "s">>,
                <<"S", "i", "d", "e">>>>,
   mappings |-> ApexMapping]
TOPSTEP_PATTERNS ==
  [headers |-> <<<<"I", "n", "s", "t", "r", "u", "m", "e", "n", "t">>,
                <<"Q", "u", "a", "n", "t", "i", "t", "y">>,
                <<"B", "u", "y", "/", "S", "e", "l", "l">>,
                <<"P", "n", "L">>,
                <<"F", "e", "e", "s">>>>,
   mappings |-> TopstepMapping]
TPT_PATTERNS ==
  [headers |-> <<<<"S", "y", "m", "b", "o", "l">>,
                <<"S", "i", "d", "e">>,
                <<"F", "i", "l", "l", "e", "d", " ", "Q", "t", "y">>,
                <<"A", "v", "g", " ", "P", "r", "i", "c", "e">>,
                <<"R", "e", "a", "l", "i", "z", "e", "d", " ", "P", "n", "L">>>>,
   mappings |-> TptMapping]

\* PATTERNS.headers.filter(h => headerSet.has(h.toLowerCase())).length
PatternMatches(pattern, headerSet) ==
  Cardinality({i \in 1..Len(pattern.headers) : toLowerCase(pattern.headers[i]) \in headerSet})

\* the detection with the threshold taken as "more than 4"
detectCsvFormatStrict(headers) ==
  LET headerSet == {toLowerCase(headers[i]) : i \in 1..Len(headers)} IN
    IF PatternMatches(APEX_PATTERNS, headerSet) > 4
      THEN [source |-> "apex", mapping |-> APEX_PATTERNS.mappings]
    ELSE IF PatternMatches(TOPSTEP_PATTERNS, headerSet) > 4
      THEN [source |-> "topstep", mapping |-> TOPSTEP_PATTERNS.mappings]
    ELSE IF PatternMatches(TPT_PATTERNS, headerSet) > 4
      THEN [source |-> "tpt", mapping |-> TPT_PATTERNS.mappings]
    ELSE JNull
detectCsvFormat(headers) ==
  LET headerSet == {toLowerCase(headers[i]) : i \in 1..Len(headers)} IN
    IF PatternMatches(APEX_PATTERNS, headerSet) >= 4
      THEN [source |-> "apex", mapping |-> APEX_PATTERNS.mappings]
    ELSE IF PatternMatches(TOPSTEP_PATTERNS, headerSet) >= 4
      THEN [source |-> "topstep", mapping |-> TOPSTEP_PATTERNS.mappings]
    ELSE IF PatternMatches(TPT_PATTERNS, headerSet) >= 4
      THEN [source |-> "tpt", mapping |-> TPT_PATTERNS.mappings]
    ELSE JNull

\* a stand-alone call of detectCsvFormat
DetectFormat ==
  /\ dIn # <<>>
  /\ dOut = JUndef
  /\ dOut' = detectCsvFormat(dIn)
  /\ UNCHANGED <<dbVars, dbUp, proc, hookVars, mail, tok, parseVars, hashVars, dIn,
                 listResp, syncVars>>

(***************************************************************************)
(* Inputs                                                                  *)
(***************************************************************************)
Users == {"u1", "u2"}
AccountA1 == <<"a", "1">>
AccountA2 == <<"a", "2">>

\* a custom mapping that names the mandatory columns only
BareMapping ==
  [symbol |-> "Contract", side |-> "Side", qty |-> "Qty", entryPrice |-> "Entry Price",
   entryTime |-> "Entry Time"]

Day2 == <<"1", "9", "7", "0", "-", "0", "1", "-", "0", "2">>
Day3 == <<"1", "9", "7", "0", "-", "0", "1", "-", "0", "3">>

\* a closed trade of 1970-01-02
RowA ==
  [c \in {"Contract", "Side", "Qty", "Entry Price", "Exit Price", "Entry Time",
          "Exit Time", "Commissions", "P/L"} |->
     CASE c = "Contract" -> <<"e", "s">>
       [] c = "Side" -> <<"B", "u", "y">>
       [] c = "Qty" -> <<"2">>
       [] c = "Entry Price" -> <<"$", "5">>
       [] c = "Exit Price" -> <<"7">>
       [] c = "Entry Time" -> Day2
       [] c = "Exit Time" -> Day2
       [] c = "Commissions" -> <<"1">>
       [] c = "P/L" -> <<"4">>]

\* the same fill with a corrected fee and an empty P/L cell
RowA2 == [RowA EXCEPT !["Commissions"] = <<"2">>, !["P/L"] = <<>>]

\* a losing trade of 1970-01-03
RowB ==
  [RowA EXCEPT !["Contract"] = <<"n", "q">>, !["Side"] = <<"S", "e", "l", "l">>,
               !["Entry Time"] = Day3, !["Exit Time"] = Day3, !["P/L"] = <<"-", "3">>]

\* another fill of 1970-01-02
RowC == [RowA EXCEPT !["Qty"] = <<"3">>, !["P/L"] = <<"-", "6">>]

\* no symbol
RowX == [RowA EXCEPT !["Contract"] = <<" ">>]

\* every mandatory cell valid, no Commissions column in the record
RowF ==
  [c \in {"Contract", "Side", "Qty", "Entry Price", "Exit Price", "Entry Time",
          "Exit Time", "P/L"} |-> IF c = "Qty" THEN <<"5">> ELSE RowA[c]]

\* a fill entered at the price 0
RowZ == [RowA EXCEPT !["Entry Price"] = <<"0">>]

SeqRows == {RowA, RowA2, RowB, RowX, RowF}
CrashRows == SeqRows \cup {RowZ}
ConcRows == {RowA, RowA2, RowC, RowX}

\* fills of one day with P&L 100, -40, 0, -10 and fees 1, 1, 0, 1, a fill
\* with an empty P/L cell, a fill of the next day and a row without symbol
RowM(qty, pnl, fees) ==
  [RowA EXCEPT !["Qty"] = qty, !["P/L"] = pnl, !["Commissions"] = fees]
MetricRows ==
  <<RowM(<<"1">>, <<"1", "0", "0">>, <<"1">>),
    RowM(<<"2">>, <<"-", "4", "0">>, <<"1">>),
    RowM(<<"3">>, <<"0">>, <<"0">>),
    RowM(<<"4">>, <<"-", "1", "0">>, <<"1">>),
    RowM(<<"6">>, <<>>, <<"1">>),
    RowB,
    RowX>>
\* the batches that take rows of MetricRows in their order
MetricBatches ==
  {[i \in 1..Len(ix) |-> MetricRows[ix[i]]] :
     ix \in {q \in SeqsUpTo(1..Len(MetricRows), MaxMetricLen) :
               \A i \in 1..(Len(q) - 1) : q[i] < q[i + 1]}}

\* the cells the stand-alone parser is tried on; Absent marks a column the
\* record does not have
Absent == <<"absent">>
ParseCells ==
  [c \in {"Contract", "Side", "Qty", "Entry Price", "Entry Time", "Commissions"} |->
     CASE c = "Contract" -> {Absent, <<>>, <<" ">>, <<"e", "s">>}
       [] c = "Side" -> {Absent, <<" ">>, <<"B", "u", "y">>, <<"x">>}
       [] c = "Qty" -> {<<>>, <<"2">>, <<"a", "b", "c">>, <<"0">>}
       [] c = "Entry Price" -> {Absent, <<"$", "1", ",", "0", "0", "0">>, <<"a", "b", "c">>}
       [] c = "Entry Time" -> {<<>>, Day2, <<"b", "a", "d">>}
       [] c = "Commissions" -> {Absent, <<>>, <<"1">>}]
ParseRows ==
  {[c \in {k \in DOMAIN cells : cells[k] # Absent} |-> cells[c]] :
     cells \in {g \in [DOMAIN ParseCells -> UNION {ParseCells[c] : c \in DOMAIN ParseCells}] :
                  \A c \in DOMAIN ParseCells : g[c] \in ParseCells[c]}}

\* request bodies of POST /api/trades that pass insertTradeSchema
ManualBody ==
  [userId |-> "", tradingAccountId |-> AccountA1, symbol |-> <<"E", "S">>, side |-> LongStr,
   qty |-> JStr(<<"1">>), entryPrice |-> JStr(<<"5">>), exitPrice |-> JUndef,
   entryTime |-> JDate(MsPerDay), exitTime |-> JUndef, fees |-> JUndef,
   pnl |-> JStr(<<"7">>), brokerExecutionId |-> JUndef, rowHash |-> JUndef,
   importSource |-> "NULL"]
ManualBodies ==
  {ManualBody,
   [ManualBody EXCEPT
      !.rowHash = JStr(generateRowHash(parseCsvRow(RowA, ApexMapping), AccountA1))]}

\* webhook alerts
HookPayload ==
  [userToken |-> <<"t", "1">>, accountTag |-> "apex-pa", symbol |-> <<"E", "S">>,
   side |-> <<"S", "E", "L", "L">>, qty |-> 1, price |-> 5, time |-> Day2,
   orderId |-> JStr(<<"o", "1">>)]
HookPayloads ==
  {HookPayload, [HookPayload EXCEPT !.userToken = <<"z", "z">>],
   [HookPayload EXCEPT !.side = <<"b", "u", "y">>, !.orderId = JUndef]}

\* alerts with a tag no account of the user carries, with the token of
\* user u2, with other spellings of the side, and without time
HookAlerts ==
  HookPayloads \cup
    {[HookPayload EXCEPT !.accountTag = "tpt-live"],
     [HookPayload EXCEPT !.time = <<>>, !.orderId = JStr(<<"o", "4">>)],
     [HookPayload EXCEPT !.userToken = <<"t", "2">>],
     [HookPayload EXCEPT !.side = <<"L", "o", "n", "g">>, !.orderId = JStr(<<"o", "2">>)],
     [HookPayload EXCEPT !.side = <<"s", "h", "o", "r", "t">>, !.orderId = JStr(<<"o", "3">>)]}

\* the configured webhook secret and the ingestion tokens of the users u1
\* and u2; every token record the program writes is active
Secret == <<"s", "3">>
TokenT1 == [userId |-> "u1", token |-> <<"t", "1">>, isActive |-> TRUE]
TokenT2 == [userId |-> "u2", token |-> <<"t", "2">>, isActive |-> TRUE]

\* recipient addresses: the token of u1, no token, an unknown token, the
\* token of u2, an empty token, and no address at all
MailAddress(token) == JStr(<<"u", "+">> \o token \o <<"@", "x">>)
MailAddresses ==
  {MailAddress(<<"t", "1">>), JStr(<<"u", "@", "x">>), MailAddress(<<"z", "z">>),
   MailAddress(<<"t", "2">>), MailAddress(<<>>), MailAddress(<<"t", "-", "1">>), JUndef}

\* attachments: a CSV file by its type, a CSV file by its name, an image
CsvFile ==
  [mimetype |-> <<"t", "e", "x", "t", "/", "c", "s", "v">>,
   originalname |-> <<"a", ".", "c", "s", "v">>, rows |-> <<RowA, RowX, RowB>>]
CsvByName ==
  [mimetype |-> <<"a", "p", "p", "/", "b", "i", "n">>,
   originalname |-> <<"b", ".", "c", "s", "v">>, rows |-> <<RowC>>]
ImageFile ==
  [mimetype |-> <<"i", "m", "a", "g", "e", "/", "p", "n", "g">>,
   originalname |-> <<"s", ".", "p", "n", "g">>, rows |-> <<>>]
MailFiles == {CsvFile, CsvByName, ImageFile}
MailFileLists == SeqsUpTo(MailFiles, MaxFiles)

\* HTML bodies: none, and one table of a header row and rows of 6, 5 and 7 cells
MailBodies == {<<>>, <<<<6, 6, 5, 7>>>>}

\* request bodies of POST /api/journal-entries: a note on an account, on no
\* account, and a body without entryDate
JournalBody ==
  [userId |-> "", tradingAccountId |-> JStr(AccountA1), entryDate |-> Day2,
   title |-> <<"N", "o", "t", "e">>]
JournalBodies ==
  {JournalBody, [JournalBody EXCEPT !.tradingAccountId = JUndef],
   [JournalBody EXCEPT !.entryDate = <<>>]}

\* updates of storage.updateJournalEntry: another title, another date, the
\* account taken off, an account that does not exist, a title next to a date
\* that is not given
JournalUpdates ==
  {[title |-> <<"E", "d", "i", "t">>], [entryDate |-> Day3],
   [tradingAccountId |-> JNull], [tradingAccountId |-> JStr(<<"z", "9">>)],
   [title |-> <<"E", "d", "i", "t">>, entryDate |-> JUndef]}
\* the ids journal rows can have and an id no row has
JournalIds == 1..(MaxJournal + 1)

\* request bodies of POST /api/trading-accounts: one of the enums, one outside
AccountBody == [userId |-> "", propFirm |-> "topstep", accountType |-> "eval"]
AccountBodies == {AccountBody, [AccountBody EXCEPT !.propFirm = "ftmo"]}

\* values of the x-webhook-secret header
HookSecrets == {JStr(Secret), JStr(<<"b", "a", "d">>), JUndef}

\* the trading accounts of the two users; no account carries the id
\* findTradingAccountByTag returns, the ids are generated by the database
BaseAccounts ==
  {[id |-> AccountA1, userId |-> "u1", propFirm |-> "apex", accountType |-> "pa"],
   [id |-> AccountA2, userId |-> "u2", propFirm |-> "topstep", accountType |-> "eval"]}

(***************************************************************************)
(* Specifications                                                          *)
(***************************************************************************)
InitCommon ==
  /\ trades = {}
  /\ dailyMetrics = {}
  /\ journalEntries = {}
  /\ dbUp = TRUE
  /\ proc = [p \in Procs |-> IdleFrame]
  /\ hook = [p \in Procs |-> IdleHook]
  /\ mail = [p \in Procs |-> IdleMail]
  /\ tok = [p \in Procs |-> IdleTok]
  /\ listResp = NoList
  /\ api = NewTradovateAPI
  /\ sync = [p \in Procs |-> IdleSync]
  /\ brokerCalls = <<>>

\* one user with an active ingestion token, the webhook secret configured
InitConfig ==
  /\ userIngestTokens = {TokenT1}
  /\ tvSecret = JStr(Secret)

\* concurrent imports
Init ==
  /\ InitCommon
  /\ InitConfig
  /\ tradingAccounts = BaseAccounts
  /\ pRow = <<>> /\ pMapping = <<>> /\ pOut = JUndef
  /\ hIn = <<>> /\ hOut = <<>>
  /\ dIn = <<>> /\ dOut = JUndef

StartConc(p) ==
  \E u \in Users, rows \in SeqsUpTo(ConcRows, MaxConcLen) :
    StartImport(p, u, AccountA1, rows, ApexMapping, "apex")

Next ==
  \/ \E p \in Procs : StartConc(p)
  \/ \E p \in Procs : ImportStep(p)

Spec == Init /\ [][Next]_vars

\* every writer of the ledger: one import, manual trades and webhook alerts,
\* next to the requests that create journal entries and trading accounts
\* and the storage call that rewrites a journal entry
InitLedger ==
  /\ InitCommon
  /\ InitConfig
  /\ tradingAccounts = BaseAccounts
  /\ pRow = <<>> /\ pMapping = <<>> /\ pOut = JUndef
  /\ hIn = <<>> /\ hOut = <<>>
  /\ dIn = <<>> /\ dOut = JUndef

NextLedger ==
  \/ StartConc(1)
  \/ ImportStep(1)
  \/ \E u \in Users, body \in ManualBodies : PostTrade(u, body)
  \/ \E payload \in HookPayloads : handleTradingViewWebhook(1, JStr(Secret), payload)
  \/ HookStep(1)
  \/ \E body \in JournalBodies : PostJournalEntry("u1", body)
  \/ \E id \in JournalIds, updates \in JournalUpdates : updateJournalEntry(id, updates)
  \/ \E body \in AccountBodies : PostTradingAccount("u1", body)

SpecLedger == InitLedger /\ [][NextLedger]_vars

\* the ledger's HTTP entry points: a CSV import, POST /api/trades and
\* GET /api/trades
ListQueries ==
  {[accountId |-> a, from |-> f, to |-> t] :
     a \in {JUndef, JStr(AccountA1)}, f \in {JUndef, JStr(Day3)}, t \in {JUndef, JStr(Day2)}}

NextList ==
  \/ StartConc(1)
  \/ ImportStep(1)
  \/ \E u \in Users, body \in ManualBodies : PostTrade(u, body)
  \/ \E u \in Users, q \in ListQueries : ListTrades(u, q.accountId, q.from, q.to)

SpecList == InitLedger /\ [][NextList]_vars

\* imports one after the other
InitSeq ==
  /\ InitCommon
  /\ InitConfig
  /\ tradingAccounts = BaseAccounts
  /\ pRow = <<>> /\ pMapping = <<>> /\ pOut = JUndef
  /\ hIn = <<>> /\ hOut = <<>>
  /\ dIn = <<>> /\ dOut = JUndef

StartSeq(p) ==
  /\ \A q \in Procs : proc[q].pc \in {"idle", "done"}
  /\ \E rows \in SeqsUpTo(SeqRows, MaxBatchLen) :
       StartImport(p, "u1", AccountA1, rows, ApexMapping, "apex")

NextSeq ==
  \/ \E p \in Procs : StartSeq(p)
  \/ \E p \in Procs : ImportStep(p)

SpecSeq == InitSeq /\ [][NextSeq]_vars

\* an import that may be cut short by a crash, and then the same import again
StartCrash ==
  \E rows \in SeqsUpTo(CrashRows, MaxBatchLen) :
    StartImport(1, "u1", AccountA1, rows, ApexMapping, "apex")

Rerun ==
  /\ proc[1].pc = "crashed"
  /\ StartImport(2, proc[1].userId, proc[1].accountId, proc[1].rows, proc[1].mapping,
                 proc[1].source)

NextCrash ==
  \/ StartCrash
  \/ Crash(1)
  \/ Rerun
  \/ \E p \in Procs : ImportStep(p)

SpecCrash == InitSeq /\ [][NextCrash]_vars

\* imports one after the other while the storage engine may fail
NextFault ==
  \/ \E p \in Procs : (\A q \in Procs : proc[q].pc \in {"idle", "done"}) /\ StartConc(p)
  \/ \E p \in Procs : ImportStep(p)
  \/ StorageOutage

SpecFault == InitSeq /\ [][NextFault]_vars

\* the row parser alone
InitParse ==
  /\ InitCommon
  /\ InitConfig
  /\ tradingAccounts = BaseAccounts
  /\ pRow \in ParseRows
  /\ pMapping \in {ApexMapping, BareMapping}
  /\ pOut = JUndef
  /\ hIn = <<>> /\ hOut = <<>>
  /\ dIn = <<>> /\ dOut = JUndef

NextParse == ParseRow

SpecParse == InitParse /\ [][NextParse]_vars

\* imports of the fills of MetricRows, one call after the other
StartMetrics(p) ==
  /\ \A q \in Procs : proc[q].pc \in {"idle", "done"}
  /\ \E rows \in MetricBatches :
       StartImport(p, "u1", AccountA1, rows, ApexMapping, "apex")

NextMetrics ==
  \/ \E p \in Procs : StartMetrics(p)
  \/ \E p \in Procs : ImportStep(p)

SpecMetrics == InitSeq /\ [][NextMetrics]_vars

\* webhook requests in any interleaving, while the storage engine may fail:
\* the secret may be configured or not
InitHook ==
  /\ InitCommon
  /\ userIngestTokens = {TokenT1, TokenT2}
  /\ tvSecret \in {JStr(Secret), JUndef}
  /\ tradingAccounts = BaseAccounts
  /\ pRow = <<>> /\ pMapping = <<>> /\ pOut = JUndef
  /\ hIn = <<>> /\ hOut = <<>>
  /\ dIn = <<>> /\ dOut = JUndef

NextHook ==
  \/ \E p \in Procs, providedSecret \in HookSecrets, payload \in HookAlerts :
       handleTradingViewWebhook(p, providedSecret, payload)
  \/ \E p \in Procs : HookStep(p)
  \/ StorageOutage

SpecHook == InitHook /\ [][NextHook]_vars

\* requests for the ingestion token and for the webhook configuration, in
\* any interleaving
TokenKinds == {"generateIngestToken", "getTradingViewWebhookConfig"}
InitToken ==
  /\ InitCommon
  /\ userIngestTokens \in {{}, {TokenT1}}
  /\ tvSecret = JStr(Secret)
  /\ tradingAccounts = BaseAccounts
  /\ pRow = <<>> /\ pMapping = <<>> /\ pOut = JUndef
  /\ hIn = <<>> /\ hOut = <<>>
  /\ dIn = <<>> /\ dOut = JUndef

NextToken ==
  \/ \E p \in Procs, kind \in TokenKinds, u \in Users : StartToken(p, kind, u)
  \/ \E p \in Procs : TokenStep(p)

SpecToken == InitToken /\ [][NextToken]_vars

\* inbound emails one after the other, each in its steps, while the storage
\* engine may fail
InitMail ==
  /\ InitCommon
  /\ userIngestTokens = {TokenT1, TokenT2}
  /\ tvSecret = JStr(Secret)
  /\ tradingAccounts = BaseAccounts
  /\ pRow = <<>> /\ pMapping = <<>> /\ pOut = JUndef
  /\ hIn = <<>> /\ hOut = <<>>
  /\ dIn = <<>> /\ dOut = JUndef

NextMail ==
  \/ \E toAddress \in MailAddresses, htmlContent \in MailBodies, files \in MailFileLists :
       handleEmailIngest(1, toAddress, htmlContent, files)
  \/ MailStep(1)
  \/ StorageOutage

SpecMail == InitMail /\ [][NextMail]_vars

\* the dedup key alone: a trade candidate, a second one that differs from it
\* in one field of the key or in fields outside the key, and an account id
KeyFields == {"symbol", "side", "qty", "entryPrice", "exitPrice", "entryTime", "exitTime"}
FieldValues ==
  [symbol |-> {JStr(<<"E", "S">>), JStr(<<"N", "Q">>)},
   side |-> {JStr(LongStr), JStr(ShortStr)},
   qty |-> {JNum(1), JNum(2)},
   entryPrice |-> {JNum(5), JNum(6)},
   exitPrice |-> {JNull, JNum(0), JNum(7)},
   entryTime |-> {JDate(MsPerDay), JDate(2 * MsPerDay)},
   exitTime |-> {JNull, JDate(MsPerDay), JDate(2 * MsPerDay)},
   fees |-> {JNum(0), JNum(1)},
   pnl |-> {JNull, JNum(4)},
   brokerExecutionId |-> {JNull, JStr(<<"x", "1">>)}]
HashCandidates ==
  {[t |-> "trade", symbol |-> sy, side |-> sd, qty |-> q, entryPrice |-> ep, exitPrice |-> xp,
    entryTime |-> et, exitTime |-> xt, fees |-> JNum(1), pnl |-> JNum(4),
    brokerExecutionId |-> JNull] :
     sy \in FieldValues.symbol, sd \in FieldValues.side, q \in FieldValues.qty,
     ep \in FieldValues.entryPrice, xp \in FieldValues.exitPrice,
     et \in FieldValues.entryTime, xt \in FieldValues.exitTime}
HashVariants(c) ==
  {[c EXCEPT ![f] = v] : <<f, v>> \in UNION {{<<g, w>> : w \in FieldValues[g]} : g \in KeyFields}}
    \cup {[c EXCEPT !.fees = fe, !.pnl = pl, !.brokerExecutionId = be] :
             fe \in FieldValues.fees, pl \in FieldValues.pnl,
             be \in FieldValues.brokerExecutionId}

InitHash ==
  /\ InitCommon
  /\ InitConfig
  /\ tradingAccounts = BaseAccounts
  /\ pRow = <<>> /\ pMapping = <<>> /\ pOut = JUndef
  /\ \E a \in HashCandidates : \E b \in HashVariants(a) : \E acc \in {AccountA1, AccountA2} :
       hIn = [a |-> a, b |-> b, accountId |-> acc, accountIdB |-> acc]
  /\ hOut = <<>>
  /\ dIn = <<>> /\ dOut = JUndef

NextHash == HashRows

SpecHash == InitHash /\ [][NextHash]_vars

\* the dedup key of two trade candidates for two account ids: the ids and
\* the symbols may hold a "-"
KeyAccounts == {AccountA1, AccountA2, <<"a", "1", "-", "X">>}
KeySymbols == FieldValues.symbol \cup {JStr(<<"X", "-", "E", "S">>)}
KeyVariants(c) ==
  {c} \cup {[c EXCEPT !.symbol = sy] : sy \in KeySymbols}
      \cup {[c EXCEPT !.qty = q] : q \in FieldValues.qty}
      \cup {[c EXCEPT !.exitPrice = xp] : xp \in FieldValues.exitPrice}

InitKey ==
  /\ InitCommon
  /\ InitConfig
  /\ tradingAccounts = BaseAccounts
  /\ pRow = <<>> /\ pMapping = <<>> /\ pOut = JUndef
  /\ \E a \in HashCandidates : \E b \in KeyVariants(a) : \E acc, accB \in KeyAccounts :
       hIn = [a |-> a, b |-> b, accountId |-> acc, accountIdB |-> accB]
  /\ hOut = <<>>
  /\ dIn = <<>> /\ dOut = JUndef

NextKey == HashRows

SpecKey == InitKey /\ [][NextKey]_vars

\* concurrent requests to the Tradovate routes and token refreshes of the
\* exported client: u1's account a1 and u2's account a2 are connected, each
\* with its own tokens; u1's account a3 is not connected
AccountA3 == <<"a", "3">>
SyncAccountRows ==
  {[id |-> AccountA1, userId |-> "u1", propFirm |-> "apex", accountType |-> "pa",
    tradovateAccessToken |-> JStr(<<"t", "a">>),
    tradovateRefreshToken |-> JStr(<<"r", "a">>)],
   [id |-> AccountA2, userId |-> "u2", propFirm |-> "topstep", accountType |-> "eval",
    tradovateAccessToken |-> JStr(<<"t", "b">>),
    tradovateRefreshToken |-> JStr(<<"r", "b">>)],
   [id |-> AccountA3, userId |-> "u1", propFirm |-> "takeprofit", accountType |-> "live",
    tradovateAccessToken |-> JNull, tradovateRefreshToken |-> JNull]}

InitSync ==
  /\ InitCommon
  /\ InitConfig
  /\ tradingAccounts = SyncAccountRows
  /\ pRow = <<>> /\ pMapping = <<>> /\ pOut = JUndef
  /\ hIn = <<>> /\ hOut = <<>>
  /\ dIn = <<>> /\ dOut = JUndef

SyncAccountIds == {AccountA1, AccountA2, AccountA3}
AuthCredentials ==
  {JUndef, [t |-> "object", username |-> <<"u">>, password |-> <<"p">>, cid |-> 1,
            sec |-> <<"s">>]}

\* the refresh tokens refreshAccessToken is called with
RefreshTokens == {JStr(<<"r", "a">>), JStr(<<"r", "x">>)}

NextSync ==
  \/ \E p \in Procs, u \in Users, a \in SyncAccountIds : StartSync(p, u, a)
  \/ \E p \in Procs : SyncStep(p)
  \/ \E p \in Procs, u \in Users, a \in SyncAccountIds : StartAccounts(p, u, a)
  \/ \E p \in Procs : AccountsStep(p)
  \/ \E p \in Procs, u \in Users, a \in SyncAccountIds, c \in AuthCredentials :
       StartAuth(p, u, a, c)
  \/ \E p \in Procs : AuthStep(p)
  \/ \E p \in Procs, refreshToken \in RefreshTokens : StartRefresh(p, refreshToken)
  \/ \E p \in Procs : RefreshGotToken(p)

SpecSync == InitSync /\ [][NextSync]_vars

\* header rows for detectCsvFormat: every selection of the headers the three
\* signatures name, some of them written in another case
HeaderPool ==
  {<<"e", "n", "t", "r", "y", " ", "t", "i", "m", "e">>,
   <<"E", "x", "i", "t", " ", "T", "i", "m", "e">>,
   <<"C", "O", "N", "T", "R", "A", "C", "T">>,
   <<"P", "/", "L">>,
   <<"C", "o", "m", "m", "i", "s", "s", "i", "o", "n", "s">>,
   <<"S", "i", "d", "e">>,
   <<"I", "n", "s", "t", "r", "u", "m", "e", "n", "t">>,
   <<"Q", "u", "a", "n", "t", "i", "t", "y">>,
   <<"B", "u", "y", "/", "S", "e", "l", "l">>,
   <<"p", "n", "l">>,
   <<"F", "e", "e", "s">>,
   <<"S", "Y", "M", "B", "O", "L">>,
   <<"F", "i", "l", "l", "e", "d", " ", "Q", "t", "y">>,
   <<"A", "v", "g", " ", "P", "r", "i", "c", "e">>,
   <<"R", "e", "a", "l", "i", "z", "e", "d", " ", "P", "n", "L">>}
RECURSIVE SetToSeq(_)
SetToSeq(S) ==
  IF S = {} THEN <<>> ELSE LET x == CHOOSE x \in S : TRUE IN <<x>> \o SetToSeq(S \ {x})

InitDetect ==
  /\ InitCommon
  /\ InitConfig
  /\ tradingAccounts = BaseAccounts
  /\ pRow = <<>> /\ pMapping = <<>> /\ pOut = JUndef
  /\ hIn = <<>> /\ hOut = <<>>
  /\ \E H \in SUBSET HeaderPool : H # {} /\ dIn = SetToSeq(H)
  /\ dOut = JUndef

NextDetect == DetectFormat

SpecDetect == InitDetect /\ [][NextDetect]_vars

(***************************************************************************)
(* Properties                                                              *)
(***************************************************************************)
Done(p) == proc[p].pc = "done"
Parses(row, mapping) == parseCsvRow(row, mapping) # JNull
RowHashOf(row, mapping, accountId) ==
  JStr(generateRowHash(parseCsvRow(row, mapping), accountId))

\* the rows of a batch that parse
ParsedIdx(f) == {k \in 1..Len(f.rows) : Parses(f.rows[k], f.mapping)}

\* C1: the same batch imported twice, one call after the other, from a
\* ledger without its fingerprints: the first call reports inserted = N and
\* updated = 0, the second inserted = 0 and updated = N, N being the number
\* of rows that parse
C1_ImportTwice ==
  (/\ Done(1) /\ Done(2)
   /\ proc[1].rows = proc[2].rows /\ proc[1].mapping = proc[2].mapping
   /\ proc[1].userId = proc[2].userId /\ proc[1].accountId = proc[2].accountId)
    => LET N == Cardinality(ParsedIdx(proc[1]))
       IN  /\ proc[1].inserted = N /\ proc[1].updated = 0
           /\ proc[2].inserted = 0 /\ proc[2].updated = N

\* C2: no two ledger rows that carry a fingerprint share the same user,
\* account and fingerprint
C2_UniqueFingerprint ==
  \A r1, r2 \in trades :
    (/\ r1.rowHash.t # "null"
     /\ r1.userId = r2.userId
     /\ r1.tradingAccountId = r2.tradingAccountId
     /\ r1.rowHash = r2.rowHash)
      => r1 = r2

\* a second import of a fingerprint the ledger holds has overwritten the one
\* row instead of adding a second
C2_Witness ==
  /\ Done(1) /\ Done(2)
  /\ proc[2].updated = 1
  /\ Cardinality(trades) = 1
  /\ \A r \in trades : r.rowHash.t # "null"

\* the ledger rows of a user and account whose entry date is the date
RowsOfDate(userId, accountId, date) ==
  {r \in trades : /\ r.userId = userId /\ r.tradingAccountId = accountId
                  /\ isoDate(r.entryTime.v) = date}

\* the Daily Metrics Rows of the date are those of the aggregate of the
\* ledger rows of the date, and there is one
MetricsMatchDate(userId, accountId, date) ==
  /\ FindMetrics(userId, accountId, date) # {}
  /\ \A m \in FindMetrics(userId, accountId, date) :
       [id |-> m.id] @@ MetricsData(userId, accountId, date,
                                    RowsOfDate(userId, accountId, date)) = m

\* C3: after an import, the metrics of every date it touched are computed
\* from the ledger rows of that date only
C3_MetricsOfTheDate ==
  (Done(1) /\ proc[2].pc = "idle")
    => \A k \in 1..Len(proc[1].daysTouched) :
         MetricsMatchDate(proc[1].userId, proc[1].accountId, proc[1].daysTouched[k])

\* a cell that is absent or blank
Blank(value) == value.t = "undefined" \/ trim(value.v) = <<>>

\* digits with an optional minus sign, after the currency sign and the
\* thousands separators are taken away
Numeral(value) ==
  LET c == stripCurrency(trim(value.v))
      body == IF c # <<>> /\ Head(c) = "-" THEN Tail(c) ELSE c
  IN  body # <<>> /\ \A k \in 1..Len(body) : IsDigit(body[k])

MandatoryFields == {"symbol", "side", "qty", "entryPrice", "entryTime"}

\* the row misses a mandatory field
MissesMandatory(row, mapping) ==
  \E fld \in MandatoryFields : Blank(Cell(row, mapping[fld]))

\* every cell the mapping names is there and well formed: a numeral for a
\* number, positive for the quantity (a positive decimal in the data model
\* of the specification), an ISO date for a time
WellFormed(row, mapping) ==
  /\ \A fld \in DOMAIN mapping : ~Blank(Cell(row, mapping[fld]))
  /\ \A fld \in DOMAIN mapping \cap {"qty", "entryPrice", "exitPrice", "fees", "pnl"} :
       Numeral(Cell(row, mapping[fld]))
  /\ parseFloat(stripCurrency(trim(row[mapping.qty]))).v > 0
  /\ \A fld \in DOMAIN mapping \cap {"entryTime", "exitTime"} :
       newDate(trim(row[mapping[fld]])) # JNull

\* C4: a batch of N rows, K of them missing a mandatory field and the others
\* well formed, yields K error entries and N - K rows inserted or updated,
\* each well-formed row among them whatever precedes it
C4_PartialBatch ==
  \A p \in Procs :
    LET f == proc[p]
        missing == {k \in 1..Len(f.rows) : MissesMandatory(f.rows[k], f.mapping)}
        wellFormed == {k \in 1..Len(f.rows) : WellFormed(f.rows[k], f.mapping)}
    IN  (Done(p) /\ missing \cup wellFormed = 1..Len(f.rows))
          => /\ Len(f.errors) = Cardinality(missing)
             /\ f.inserted + f.updated = Len(f.rows) - Cardinality(missing)
             /\ \A k \in wellFormed : f.outcome[k] \in {"inserted", "updated"}

\* C5: a row whose mandatory fields are present and valid is inserted or
\* updated, not reported in errors, whatever its optional cells
C5_OptionalCellsAbsent ==
  \A p \in Procs :
    Done(p) => \A k \in ParsedIdx(proc[p]) : proc[p].outcome[k] \in {"inserted", "updated"}

\* C6: a call during which a storage operation failed returns no result
C6_StorageFailureRaised ==
  \A p \in Procs : proc[p].faulted => ~Done(p)

\* C7: at most one Daily Metrics Row per user, account and date
C7_OneMetricsRowPerDay ==
  \A m1, m2 \in dailyMetrics :
    (/\ m1.userId = m2.userId
     /\ m1.tradingAccountId = m2.tradingAccountId
     /\ m1.tradeDate = m2.tradeDate)
      => m1 = m2

\* C8: once no import is under way, every ledger row has the Daily Metrics
\* Row of its user, account and entry date, equal to the aggregate of the
\* ledger rows stored for that date
C8_MetricsFollowLedger ==
  (/\ \A p \in Procs : proc[p].pc \in {"idle", "done"}
   /\ \A p \in Procs : hook[p].pc \in {"idle", "done"})
    => \A r \in trades :
         MetricsMatchDate(r.userId, r.tradingAccountId, isoDate(r.entryTime.v))

\* what a column holds for a parsed number: its decimal string, or NULL
Stored(x) == IF Nullish(x) THEN JNull ELSE JStr(str(x))

\* the last row of the two batches, in the order processed, with the fingerprint
LastOccurrence(rowHash) ==
  LET occ(p) == {k \in ParsedIdx(proc[p]) :
                   RowHashOf(proc[p].rows[k], proc[p].mapping, proc[p].accountId) = rowHash}
      last(p) == parseCsvRow(proc[p].rows[CHOOSE k \in occ(p) : \A j \in occ(p) : j <= k],
                             proc[p].mapping)
  IN  IF occ(2) # {} THEN last(2) ELSE last(1)

\* C9: one ledger row per fingerprint, holding the fees and the P&L of the
\* latest occurrence of the fingerprint
C9_LastOccurrenceWins ==
  (\A p \in Procs : proc[p].pc \in {"idle", "done"})
    => \A r \in trades :
         /\ r.fees = Stored(LastOccurrence(r.rowHash).fees)
         /\ r.pnl = Stored(LastOccurrence(r.rowHash).pnl)
         /\ \A r2 \in trades : r2.rowHash = r.rowHash => r2 = r

\* a mandatory field normalizes to null
NormalizesToNull(row, mapping) ==
  \/ normalizeValue(Cell(row, mapping.symbol), "symbol") = JNull
  \/ normalizeValue(Cell(row, mapping.side), "side") = JNull
  \/ normalizeValue(Cell(row, mapping.qty), "number") = JNull
  \/ normalizeValue(Cell(row, mapping.entryPrice), "number") = JNull
  \/ normalizeValue(Cell(row, mapping.entryTime), "date") = JNull

\* C10: parseCsvRow rejects a row exactly when a mandatory field normalizes
\* to null; a quantity or entry price of 0 is no reason to reject
C10_RejectsExactlyMissing ==
  pOut # JUndef => ((pOut = JNull) <=> NormalizesToNull(pRow, pMapping))

\* C11: two trade candidates that differ in exactly one field of the dedup
\* key (entry price, exit price, quantity, side, symbol, entry or exit
\* timestamp, present versus absent included) get different fingerprints for
\* one account id; candidates that differ only in fees, P&L or broker
\* execution id get the same fingerprint
DiffFields(a, b) == {f \in DOMAIN a : a[f] # b[f]}
C11_FingerprintSensitivity ==
  hOut # <<>> =>
    LET d == DiffFields(hIn.a, hIn.b) IN
      /\ Cardinality(d \cap KeyFields) = 1 => hOut[1] # hOut[2]
      /\ d \subseteq {"fees", "pnl", "brokerExecutionId"} => hOut[1] = hOut[2]
C11_Witness ==
  /\ hOut # <<>>
  /\ DiffFields(hIn.a, hIn.b) = {"exitPrice"}
  /\ hIn.a.exitPrice = JNull
  /\ hOut[1] # hOut[2]

\* C12: the Daily Metrics Row that recalculateDailyMetrics stores holds, over
\* the ledger rows it selected: gross P&L = the sum of their P&L (absent
\* counted as 0), net P&L = gross minus the sum of their fees, win count =
\* rows with P&L > 0, loss count = rows with P&L < 0, trade count = the
\* number of rows
PnlOf(r) == IF r.pnl = JNull THEN 0 ELSE parseFloat(r.pnl.v).v
FeesOf(r) == IF r.fees = JNull THEN 0 ELSE parseFloat(r.fees.v).v
RECURSIVE TotalPnl(_)
TotalPnl(rows) ==
  IF rows = {} THEN 0
  ELSE LET r == CHOOSE x \in rows : TRUE IN PnlOf(r) + TotalPnl(rows \ {r})
RECURSIVE TotalFees(_)
TotalFees(rows) ==
  IF rows = {} THEN 0
  ELSE LET r == CHOOSE x \in rows : TRUE IN FeesOf(r) + TotalFees(rows \ {r})
SelectedRows(m) ==
  {r \in trades : r.userId = m.userId /\ r.tradingAccountId = m.tradingAccountId}
C12_MetricsArithmetic ==
  [][\A m \in dailyMetrics' \ dailyMetrics :
       LET R == SelectedRows(m) IN
         /\ m.grossPnl = NumToStr(TotalPnl(R))
         /\ m.netPnl = NumToStr(TotalPnl(R) - TotalFees(R))
         /\ m.winCount = Cardinality({r \in R : PnlOf(r) > 0})
         /\ m.lossCount = Cardinality({r \in R : PnlOf(r) < 0})
         /\ m.tradeCount = Cardinality(R)]_vars
C12_Witness ==
  /\ Done(1)
  /\ {PnlOf(r) : r \in trades} = {100, -40, 0, -10}
  /\ Cardinality(trades) = 4
  /\ TotalFees(trades) = 3
  /\ \E m \in dailyMetrics :
       /\ m.grossPnl = <<"5", "0">> /\ m.netPnl = <<"4", "7">>
       /\ m.winCount = 1 /\ m.lossCount = 2 /\ m.tradeCount = 4

\* the header of the request equals a configured secret
Authenticated(call) ==
  tvSecret.t = "str" /\ tvSecret.v # <<>> /\ call.secret = tvSecret
TokenRecords(token) == {k \in userIngestTokens : k.token = token}
\* the tag names an account of the user
TagMatches(userId, accountTag) ==
  /\ accountTag \in DOMAIN tagMapping
  /\ \E a \in tradingAccounts :
       /\ a.userId = userId
       /\ a.propFirm = tagMapping[accountTag].propFirm
       /\ a.accountType = tagMapping[accountTag].accountType
\* the request wrote no ledger row and no journal entry
WroteNothing(f) == f.tradeIds = {} /\ f.entryIds = {}

\* C13: a webhook request whose x-webhook-secret header is not the configured
\* secret, or that arrives while no secret is configured, is rejected before
\* any other step: it is answered 403 in the step it arrives in, with no
\* token lookup, no ledger row and no journal entry, then and ever after
C13_SecretFirst ==
  /\ [](\A p \in Procs :
          (hook[p].pc # "idle" /\ ~Authenticated(hook[p])) =>
            /\ hook[p].pc = "done"
            /\ hook[p].status = 403
            /\ hook[p].log = <<"verifyWebhookSecret">>
            /\ WroteNothing(hook[p]))
  /\ [][\A p \in Procs :
          (hook[p].pc = "idle" /\ hook'[p].pc # "idle" /\ ~Authenticated(hook'[p])) =>
            (trades' = trades /\ journalEntries' = journalEntries)]_vars
C13_Witness ==
  /\ hook[2].pc = "done"
  /\ hook[2].status = 403
  /\ tvSecret = JStr(Secret)
  /\ hook[2].secret # JStr(Secret)
  /\ hook[1].pc = "done"
  /\ Authenticated(hook[1])
  /\ "createTradeIntent" \in {hook[1].log[k] : k \in 1..Len(hook[1].log)}

\* C14: an authenticated alert whose userToken resolves to no user, or whose
\* accountTag matches no trading account of the resolved user, is rejected
\* with the corresponding error and writes no ledger row and no journal entry
C14_RoutingRejected ==
  \A p \in Procs :
    (hook[p].pc = "done" /\ Authenticated(hook[p])) =>
      LET payload == hook[p].payload
          records == TokenRecords(payload.userToken)
      IN  /\ records = {} =>
               /\ hook[p].status = 404 /\ hook[p].error = "User not found"
               /\ WroteNothing(hook[p])
          /\ (/\ records # {}
              /\ ~hook[p].faulted
              /\ \A k \in records : ~TagMatches(k.userId, payload.accountTag)) =>
               /\ hook[p].status = 404 /\ hook[p].error = "Trading account not found"
               /\ WroteNothing(hook[p])

\* C15: after the same alert was delivered twice, with the configured secret,
\* the token of a user and the tag of an account of that user, and with no
\* storage failure, the ledger holds exactly one row for it
AlertRows(payload) ==
  {r \in trades :
     /\ r.source = "tv"
     /\ r.symbol = payload.symbol
     /\ r.side = normalizeSide(payload.side)
     /\ r.qty = JStr(NumToStr(payload.qty))
     /\ r.entryPrice = JStr(NumToStr(payload.price))
     /\ r.entryTime = newDate(payload.time)}
C15_DuplicateAlertOnce ==
  (/\ hook[1].pc = "done" /\ hook[2].pc = "done"
   /\ hook[1].payload = hook[2].payload
   /\ hook[2].payload.orderId.t = "str"
   /\ hook[2].payload.time # <<>>
   /\ Authenticated(hook[1]) /\ Authenticated(hook[2])
   /\ ~hook[1].faulted /\ ~hook[2].faulted
   /\ \E k \in TokenRecords(hook[2].payload.userToken) :
        TagMatches(k.userId, hook[2].payload.accountTag))
    => Cardinality(AlertRows(hook[2].payload)) = 1

\* C16: an alert that passes authentication and routing, and meets no storage
\* failure, inserts exactly one ledger row, with exit price, exit time and
\* P&L null, fees 0 and side long for BUY or LONG and short for SELL or SHORT
\* in any case, and creates exactly one journal entry, for the date of the
\* alert when it carries one
SideOf(side) ==
  IF toUpperCase(side) \in {<<"B", "U", "Y">>, <<"L", "O", "N", "G">>} THEN LongStr ELSE ShortStr
C16_OneRowPerAlert ==
  \A p \in Procs :
    (/\ hook[p].pc = "done"
     /\ Authenticated(hook[p])
     /\ ~hook[p].faulted
     /\ \E k \in TokenRecords(hook[p].payload.userToken) :
          k.isActive /\ TagMatches(k.userId, hook[p].payload.accountTag)) =>
      /\ Cardinality(hook[p].tradeIds) = 1
      /\ \A r \in trades :
           r.id \in hook[p].tradeIds =>
             /\ r.exitPrice = JNull /\ r.exitTime = JNull /\ r.pnl = JNull
             /\ r.fees = JStr(<<"0">>)
             /\ r.side = SideOf(hook[p].payload.side)
      /\ Cardinality(hook[p].entryIds) = 1
      /\ \A e \in journalEntries :
           (e.id \in hook[p].entryIds /\ hook[p].payload.time # <<>>) =>
             e.entryDate = hook[p].payload.time

\* C17: under any interleaving of generateIngestToken and
\* getTradingViewWebhookConfig calls every user has at most one active
\* ingestion token, and a call for a user who had an active token returns
\* that token and creates no token row
C17_OneActiveToken ==
  /\ \A u \in Users : Cardinality(ActiveTokens(u)) <= 1
  /\ \A p \in Procs :
       (tok[p].pc = "done" /\ tok[p].status = 200 /\ tok[p].hadActive # {}) =>
         (tok[p].token \in tok[p].hadActive /\ ~tok[p].created)

\* the address carries the token of no record
NoKnownToken(toAddress) ==
  \/ toAddress.t # "str"
  \/ \A k \in userIngestTokens : ~includes(toAddress.v, <<"+">> \o k.token \o <<"@">>)

\* C19: an inbound email whose recipient address carries no routing token, or
\* a token that resolves to no user, is rejected with "User not found" and
\* writes no ledger row and no journal entry, whatever its attachments: it
\* never reaches the attachments, its answer is 404, and no step of it
\* changes the ledger or the journal
C19_UnroutedMailRejected ==
  /\ [](\A p \in Procs :
          (mail[p].pc # "idle" /\ NoKnownToken(mail[p].to)) =>
            /\ mail[p].pc \in {"resolve", "done"}
            /\ mail[p].pc = "done" =>
                 (mail[p].status = 404 /\ mail[p].error = "User not found")
            /\ mail[p].entryIds = {}
            /\ mail[p].trades = 0 /\ mail[p].journalEntries = 0)
  /\ [][\A p \in Procs :
          (mail'[p] # mail[p] /\ NoKnownToken(mail'[p].to)) =>
            (trades' = trades /\ journalEntries' = journalEntries)]_vars
C19_Witness ==
  /\ mail[1].pc = "done"
  /\ mail[1].to = MailAddress(<<"z", "z">>)
  /\ mail[1].files = <<CsvFile, ImageFile>>
  /\ mail[1].status = 404
  /\ ~mail[1].faulted
  /\ trades = {} /\ journalEntries = {}

\* C20: after handleEmailIngest handled an email of a resolved user with a CSV
\* attachment, every parseable row of the attachment is in the ledger and
\* the reported trade count is the number of rows so processed
CsvRowsOf(files) ==
  {f.rows[i] : <<f, i>> \in UNION {{<<g, j>> : j \in 1..Len(g.rows)} :
                                     g \in {files[k] : k \in {n \in 1..Len(files) : IsCsvFile(files[n])}}}}
RECURSIVE CountParseable(_)
CountParseable(files) ==
  IF files = <<>> THEN 0
  ELSE (IF IsCsvFile(Head(files))
          THEN Len(SelectSeq(Head(files).rows, LAMBDA row : Parses(row, ApexMapping)))
          ELSE 0) + CountParseable(Tail(files))
InLedger(row, ledger) ==
  LET parsed == parseCsvRow(row, ApexMapping) IN
    \E r \in ledger :
      /\ r.symbol = parsed.symbol.v
      /\ r.side = parsed.side.v
      /\ r.qty = JStr(str(parsed.qty))
      /\ r.entryTime = parsed.entryTime
C20_CsvAttachmentImported ==
  \A p \in Procs :
    (/\ mail[p].pc = "done"
     /\ mail[p].status = 200
     /\ \E k \in userIngestTokens :
          k.isActive /\ includes(mail[p].to.v, <<"+">> \o k.token \o <<"@">>)
     /\ \E k \in 1..Len(mail[p].files) : IsCsvFile(mail[p].files[k])) =>
      LET parseable == {row \in CsvRowsOf(mail[p].files) : Parses(row, ApexMapping)} IN
        /\ \A row \in parseable : InLedger(row, trades)
        /\ mail[p].trades - parseStatementTable(mail[p].html)
             = CountParseable(mail[p].files)

\* C21: detectCsvFormat returns the first signature, in the order apex,
\* topstep, tpt, of which at least 4 headers occur in the header list when
\* case is ignored, with that source's canned mapping, and null when every
\* signature has 3 or fewer of its headers in the list
SameIgnoringCase(a, b) ==
  Len(a) = Len(b) /\ \A i \in 1..Len(a) : UpperChar(a[i]) = UpperChar(b[i])
HeadersPresent(signature, headers) ==
  Cardinality({i \in 1..Len(signature) :
                 \E j \in 1..Len(headers) : SameIgnoringCase(signature[i], headers[j])})
C21_FirstSignatureWithFour ==
  dOut # JUndef =>
    LET apex == HeadersPresent(APEX_PATTERNS.headers, dIn)
        topstep == HeadersPresent(TOPSTEP_PATTERNS.headers, dIn)
        tpt == HeadersPresent(TPT_PATTERNS.headers, dIn)
    IN /\ apex >= 4 => dOut = [source |-> "apex", mapping |-> ApexMapping]
       /\ (apex <= 3 /\ topstep >= 4) =>
            dOut = [source |-> "topstep", mapping |-> TopstepMapping]
       /\ (apex <= 3 /\ topstep <= 3 /\ tpt >= 4) =>
            dOut = [source |-> "tpt", mapping |-> TptMapping]
       /\ (apex <= 3 /\ topstep <= 3 /\ tpt <= 3) => dOut = JNull
\* exactly 4 apex headers, one of them in another case, next to a full tpt
\* signature: apex is returned
C21_Witness ==
  /\ dOut # JUndef /\ dOut # JNull /\ dOut.source = "apex"
  /\ HeadersPresent(APEX_PATTERNS.headers, dIn) = 4
  /\ HeadersPresent(TPT_PATTERNS.headers, dIn) = 5
  /\ \E j \in 1..Len(dIn) : dIn[j] = <<"e", "n", "t", "r", "y", " ", "t", "i", "m", "e">>

\* C22: the dedup fingerprint is never accepted from an external caller and
\* never returned to one: a ledger row that a request body created carries no
\* fingerprint, and no row of a response that lists ledger rows shows one
C22_FingerprintInternal ==
  /\ \A r \in trades : r.importSource = "NULL" => r.rowHash = JNull
  /\ \A k \in 1..Len(listResp.body) :
       "rowHash" \notin DOMAIN listResp.body[k] \/ listResp.body[k].rowHash = JNull

\* C23: two concurrent imports for the same user and account that each
\* carry a row with the same fingerprint both count that row as inserted or
\* updated, neither reports it in errors, and the stored row holds the fees
\* and the P&L of the row of one of the two calls, the one that wrote last
C23_RacingRowCounted ==
  (/\ Done(1) /\ Done(2)
   /\ proc[1].userId = proc[2].userId /\ proc[1].accountId = proc[2].accountId)
    => \A k1 \in ParsedIdx(proc[1]), k2 \in ParsedIdx(proc[2]) :
         LET h1 == RowHashOf(proc[1].rows[k1], proc[1].mapping, proc[1].accountId)
             h2 == RowHashOf(proc[2].rows[k2], proc[2].mapping, proc[2].accountId)
             t1 == parseCsvRow(proc[1].rows[k1], proc[1].mapping)
             t2 == parseCsvRow(proc[2].rows[k2], proc[2].mapping)
         IN  h1 = h2 =>
               /\ proc[1].outcome[k1] \in {"inserted", "updated"}
               /\ proc[2].outcome[k2] \in {"inserted", "updated"}
               /\ \E r \in trades :
                    /\ r.rowHash = h1
                    /\ \/ r.fees = Stored(t1.fees) /\ r.pnl = Stored(t1.pnl)
                       \/ r.fees = Stored(t2.fees) /\ r.pnl = Stored(t2.pnl)

\* C24: with two imports for the same user and account running concurrently
\* and touching the same date, every Daily Metrics Row of the date is the
\* aggregate of one ledger state that existed during the run: the aggregate
\* is computed from one read of the rows, the ledger of that moment, and the
\* row written holds that aggregate in every column, never values of two
\* ledger states
AggregateOfLedger(userId, accountId, date) ==
  LET R == {r \in trades : r.userId = userId /\ r.tradingAccountId = accountId}
  IN  [userId |-> userId, tradingAccountId |-> accountId, tradeDate |-> date,
       grossPnl |-> NumToStr(TotalPnl(R)),
       netPnl |-> NumToStr(TotalPnl(R) - TotalFees(R)),
       winCount |-> Cardinality({r \in R : PnlOf(r) > 0}),
       lossCount |-> Cardinality({r \in R : PnlOf(r) < 0}),
       tradeCount |-> Cardinality(R)]
C24_MetricsFromOneLedgerState ==
  [][\A p \in Procs :
       LET f == proc[p] IN
         /\ (f.pc = "metrics" /\ proc'[p].pc = "m_existing") =>
              proc'[p].metricsData =
                AggregateOfLedger(f.userId, f.accountId, f.daysTouched[f.d])
         /\ (f.pc = "m_existing" /\ proc'[p].pc = "m_write") =>
              proc'[p].metricsData = f.metricsData
         /\ (f.pc = "m_write" /\ proc'[p].pc # "m_write") =>
              \A m \in dailyMetrics' \ dailyMetrics :
                [c \in DOMAIN f.metricsData |-> m[c]] = f.metricsData]_vars
\* both calls inserted a fill of the same date and have returned; the row of
\* the date was overwritten with the aggregate of the ledger that held one of
\* the two fills
C24_Witness ==
  /\ Done(1) /\ Done(2)
  /\ proc[1].userId = proc[2].userId
  /\ proc[1].daysTouched = proc[2].daysTouched /\ proc[1].daysTouched # <<>>
  /\ Cardinality(trades) = 2
  /\ Cardinality(dailyMetrics) = 1
  /\ \A m \in dailyMetrics : m.tradeCount = 1

\* a ledger row without its generated id
NoId(r) == [r EXCEPT !.id = 0]
\* the result of importCsvTrades computed row by row: the ledger (rows
\* without ids), the counts and the set of dates after row k of the call of
\* frame f is processed alone
NoRun(ledger) == [ledger |-> ledger, inserted |-> 0, updated |-> 0, days |-> {}]
RunRow(res, f, k) ==
  LET parsedTrade == parseCsvRow(f.rows[k], f.mapping) IN
    IF parsedTrade = JNull \/ TradeDataThrows(parsedTrade) THEN res
    ELSE LET data == TradeData(f.userId, f.accountId, parsedTrade, f.source)
             found == {r \in res.ledger : r.rowHash = data.rowHash}
             days == res.days \cup {isoDate(parsedTrade.entryTime.v)}
         IN  IF found = {}
               THEN [res EXCEPT !.ledger = @ \cup {NoId(InsertedTrade(data))},
                                !.inserted = @ + 1, !.days = days]
               ELSE [res EXCEPT !.ledger = (@ \ found) \cup
                                             {UpdatedTrade(r, data) : r \in found},
                                !.updated = @ + 1, !.days = days]
\* and after rows k, k + 1, ... of the call are processed in order
RECURSIVE RunRows(_, _, _)
RunRows(res, f, k) ==
  IF k > Len(f.rows) THEN res ELSE RunRows(RunRow(res, f, k), f, k + 1)
LedgerAfterRows(ledger, f, k) == RunRows(NoRun(ledger), f, k).ledger
\* the dates of the rows of the call that are written
DatesWritten(f) ==
  {isoDate(parseCsvRow(f.rows[k], f.mapping).entryTime.v) :
     k \in {j \in ParsedIdx(f) : ~TradeDataThrows(parseCsvRow(f.rows[j], f.mapping))}}
\* the Daily Metrics Rows after the call, from no rows: one per date written
MetricsAfter(ledger, f) ==
  LET R == {r \in ledger : r.userId = f.userId /\ r.tradingAccountId = f.accountId}
  IN  IF R = {} THEN {}
      ELSE {MetricsData(f.userId, f.accountId, date, R) : date \in DatesWritten(f)}
MetricsNoId == {[c \in DOMAIN m \ {"id"} |-> m[c]] : m \in dailyMetrics}

\* C25: every ledger row written before a crash of importCsvTrades remains
\* stored, and the same call run again to completion leaves the ledger rows
\* (by fingerprint and field values) and the Daily Metrics Rows that one
\* uninterrupted run of the batch leaves
C25_CrashThenRerun ==
  LET f == proc[1]
      ledger == LedgerAfterRows({}, f, 1)
  IN  /\ f.pc = "crashed" =>
           \A k \in 1..Len(f.outcome) :
             f.outcome[k] \in {"inserted", "updated"} =>
               \E r \in trades : r.rowHash = RowHashOf(f.rows[k], f.mapping, f.accountId)
      /\ (Done(1) \/ (f.pc = "crashed" /\ Done(2))) =>
           /\ {NoId(r) : r \in trades} = ledger
           /\ MetricsNoId = MetricsAfter(ledger, f)
\* the call crashed after it had written a row and before it had processed
\* the next, and the second run has updated the one and inserted the other
C25_Witness ==
  /\ proc[1].pc = "crashed"
  /\ Len(proc[1].outcome) = 1 /\ proc[1].outcome[1] = "inserted"
  /\ Len(proc[1].rows) = 2
  /\ Done(2)
  /\ proc[2].updated = 1 /\ proc[2].inserted = 1
  /\ dailyMetrics # {}

\* the rows of the batch that parse have pairwise distinct fingerprints
DistinctFingerprints(f) ==
  \A j, k \in ParsedIdx(f) :
    RowHashOf(f.rows[j], f.mapping, f.accountId) =
      RowHashOf(f.rows[k], f.mapping, f.accountId) => j = k
Perms(n) == {q \in [1..n -> 1..n] : \A j, k \in 1..n : q[j] = q[k] => j = k}
\* the ledger a call started from: empty for the first call, what the first
\* call left for the second
StartLedger(p) == IF p = 1 THEN {} ELSE LedgerAfterRows({}, proc[1], 1)
Settled(p) ==
  IF p = 1 THEN Done(1) /\ proc[2].pc = "idle" ELSE Done(1) /\ Done(2)

\* C26: for a batch whose parsed rows have pairwise distinct fingerprints,
\* every permutation of the rows yields, from the same starting ledger, the
\* same final ledger rows (by fingerprint and field values), the same
\* inserted and updated counts and the same set of touched dates
C26_OrderIndependent ==
  \A p \in Procs :
    (Settled(p) /\ DistinctFingerprints(proc[p])) =>
      \A q \in Perms(Len(proc[p].rows)) :
        LET g == [proc[p] EXCEPT !.rows = [k \in 1..Len(proc[p].rows) |-> proc[p].rows[q[k]]]]
            res == RunRows(NoRun(StartLedger(p)), g, 1)
        IN  /\ res.ledger = {NoId(r) : r \in trades}
            /\ res.inserted = proc[p].inserted
            /\ res.updated = proc[p].updated
            /\ res.days = {proc[p].daysTouched[k] : k \in 1..Len(proc[p].daysTouched)}
\* a second call with two fills of different dates and fingerprints, one of
\* them in the ledger already: one insert, one update, two dates
C26_Witness ==
  /\ Settled(2) /\ DistinctFingerprints(proc[2])
  /\ Len(proc[2].rows) = 2
  /\ proc[2].inserted = 1 /\ proc[2].updated = 1
  /\ Len(proc[2].daysTouched) = 2

\* C27: no step of an importCsvTrades call made for a user changes a ledger
\* row owned by another user: every such row is there after the step as it
\* was before, owning user and account included
C27_OtherUsersRowsKept ==
  [][\A p \in Procs :
       (proc[p].pc # "idle" /\ proc'[p] # proc[p]) =>
         \A r \in trades : r.userId # proc[p].userId => r \in trades']_vars

\* C28: every importCsvTrades call that returns has inserted + updated +
\* the number of error entries = the number of input rows
C28_EveryRowCountedOnce ==
  \A p \in Procs :
    Done(p) => proc[p].inserted + proc[p].updated + Len(proc[p].errors) = Len(proc[p].rows)
\* a call with an inserted row and a row that does not parse, then a call
\* with an updated row and a row whose processing raised
C28_Witness ==
  /\ Done(1) /\ Done(2)
  /\ proc[1].inserted = 1 /\ proc[1].outcome = <<"inserted", "parse">>
  /\ proc[2].updated = 1 /\ proc[2].outcome = <<"error", "updated">>

\* the key tuple of a trade candidate for an account id
KeyTuple(trade, accountId) ==
  <<accountId, trade.symbol, trade.side, trade.qty, trade.entryTime, trade.exitTime,
    trade.entryPrice, trade.exitPrice>>

\* C29: two key tuples (account id, symbol, side, quantity, entry timestamp,
\* exit timestamp, entry price, exit price) that differ in any component,
\* tuples of different accounts included, never give the same hash input
C29_KeyStringInjective ==
  hOut # <<>> =>
    (KeyTuple(hIn.a, hIn.accountId) # KeyTuple(hIn.b, hIn.accountIdB)
       => hOut[1] # hOut[2])

\* C30: when two sync requests for different accounts are handled
\* concurrently, every broker call made for a request carries the access
\* token stored for that request's own account
C30_OwnTokenOnly ==
  (/\ sync[1].route = "sync" /\ sync[2].route = "sync"
   /\ sync[1].accountId # sync[2].accountId) =>
    \A k \in 1..Len(brokerCalls) :
      brokerCalls[k].token =
        getTradingAccount(sync[brokerCalls[k].request].accountId).tradovateAccessToken

====
